---- MODULE Spec2Model ----
(***************************************************************************)
(* A model of the NetTester session layer: the Serial, Telnet and SSH      *)
(* transports, the ConnectionFactory, the ConnectionManager and the        *)
(* CommandManager (command catalog).                                       *)
(*                                                                         *)
(* A handler is modelled as an operator from a computation record          *)
(*   [tr, exc, msg, writes, reads, out, log]                               *)
(* (the transport object's fields, the exception in flight or "none", the  *)
(* message of the exception first raised, the data written to the device   *)
(* so far, the outcome of the last read, and, when log is set, the         *)
(* outcomes of all the reads so far) to the SET of computations the        *)
(* handler can end in: the device's answers and I/O failures are the       *)
(* nondeterminism.                                                         *)
(***************************************************************************)
EXTENDS Integers, Sequences, FiniteSets, TLC

VARIABLES
    transports,     \* object id -> transport object, or NoObj
    hist,           \* object id -> ghost: last lifecycle call, ever connected
    mgr,            \* the ConnectionManager: connection_type, section, _connection
    last,           \* the last call made: operation, arguments, exception, writes
    fcall,          \* factory / constructor call: its arguments
    fresult,        \* factory / constructor call: its result
    commands,       \* CommandManager.commands (in memory)
    catalogFile,    \* the catalog file on disk
    ccall,          \* catalog call: its arguments
    cresult,        \* catalog call: its result
    prog,           \* a run of the program (main): what happens in it, its exit code
    rd,             \* a wait-for-output loop: its input and how it ended
    ctx,            \* the shared configuration and a connection context entered
    device          \* the CLI mode of the switch at the other end of a serial line

transportVars == <<transports, hist, mgr, last>>
factoryVars == <<fcall, fresult>>
catalogVars == <<commands, catalogFile, ccall, cresult>>
harnessVars == <<prog, rd, ctx, device>>
vars ==
    <<transports, hist, mgr, last, fcall, fresult, commands, catalogFile, ccall, cresult,
      prog, rd, ctx, device>>

(***************************************************************************)
(* Bounds of the model.                                                    *)
(***************************************************************************)
MaxTransports == 2
MaxLen == 3
MaxFailing == 1

(***************************************************************************)
(* Prompt patterns (serial_connection.py 23-34, telnet_connection.py       *)
(* 22-35).  A read's outcome is the name of the pattern that matched.      *)
(***************************************************************************)
USER_PROMPT == "USER_PROMPT"
ENABLE_PROMPT == "ENABLE_PROMPT"
CONFIG_PROMPT == "CONFIG_PROMPT"
INTERFACE_PROMPT == "INTERFACE_PROMPT"
VLAN_PROMPT == "VLAN_PROMPT"
PASSWORD_PROMPT == "PASSWORD_PROMPT"
USERNAME_PROMPT == "USERNAME_PROMPT"
PRESS_RETURN == "Press RETURN to get started"
INITIAL_DIALOG == "Initial configuration dialog"
SERIAL_INITIAL_PROMPTS == {PRESS_RETURN, INITIAL_DIALOG, USER_PROMPT, ENABLE_PROMPT}

NEWLINE == "<newline>"
BREAK == "<break>"

NoObj == [kind |-> "absent"]
Kinds == {"serial", "telnet", "ssh"}

\* The fields the three constructors set (serial 75-77, telnet 52-55, ssh 54-56).
\* handle: self.serial / self.socket / the SSH client's transport ("none" or "open");
\* connected: Telnet's _connected; shell: SSH's self.shell is not None;
\* username, password: whether Telnet was given one.
NewTransport(kind, username, password) ==
    [kind |-> kind, handle |-> "none", connected |-> FALSE, shell |-> FALSE,
     in_enable_mode |-> FALSE, in_config_mode |-> FALSE,
     username |-> username, password |-> password]

Start(tr) ==
    [tr |-> tr, exc |-> "none", msg |-> "", writes |-> <<>>, reads |-> <<>>, out |-> "none",
     log |-> FALSE]

\* The same, keeping the record of what every read returned.
StartLogged(tr) == [Start(tr) EXCEPT !.log = TRUE]

\* The record of the reads after one more read.
Logged(c, p) == IF c.log THEN Append(c.reads, p) ELSE c.reads

\* raise exc(msg).  A wrapping handler keeps the message: it formats str(e) into its own.
Raise(c, exc, msg) == [c EXCEPT !.exc = exc, !.msg = msg]

\* Sequencing: run F on every computation of C that has not raised.
Bind(C, F(_)) == UNION { IF c.exc = "none" THEN F(c) ELSE {c} : c \in C }

\* A try/except that re-raises everything as e.
Reraise(C, e) == { IF c.exc = "none" THEN c ELSE [c EXCEPT !.exc = e] : c \in C }

\* A try/except: pass.
Swallow(C) == { [c EXCEPT !.exc = "none", !.msg = ""] : c \in C }

\* The end of a handler that returns None: the output it read is a local.
NoOutput(C) == { [c EXCEPT !.out = "none"] : c \in C }

(***************************************************************************)
(* SerialConnection                                                        *)
(***************************************************************************)
\* serial.write / send_break.  (A write that raises ends every handler the way the
\* read after it does when it times out, so the reads carry the failures.)
SerialWrite(c, data) == { [c EXCEPT !.writes = Append(@, data)] }

\* _read_until: returns the pattern that matched, or raises at the deadline.
SerialReadUntil(c, patterns) ==
    { [c EXCEPT !.out = p, !.reads = Logged(c, p)] : p \in patterns }
        \cup { [Raise(c, "SerialConnectionError", "Timeout waiting for patterns")
                   EXCEPT !.out = "timeout", !.reads = Logged(c, "timeout")] }

SerialIsConnected(tr) == tr.handle = "open"

SerialHandleInitialConnection(c) ==
    LET c1 == Bind(Bind(SerialWrite(c, BREAK),
                        LAMBDA x : SerialWrite(x, NEWLINE)),
                   LAMBDA x : SerialReadUntil(x, SERIAL_INITIAL_PROMPTS))
        c2 == Bind(c1, LAMBDA x :
                  IF x.out = PRESS_RETURN
                  THEN Bind(SerialWrite(x, NEWLINE),
                            LAMBDA y : SerialReadUntil(y, SERIAL_INITIAL_PROMPTS))
                  ELSE {x})
        c3 == Bind(c2, LAMBDA x :
                  IF x.out = INITIAL_DIALOG
                  THEN Bind(SerialWrite(x, "no"),
                            LAMBDA y : SerialReadUntil(y, {USER_PROMPT, ENABLE_PROMPT}))
                  ELSE {x})
    IN  Reraise(c3, "SerialConnectionError")

SerialEnterEnableMode(c) ==
    IF c.tr.in_enable_mode THEN {c}
    ELSE
    LET c1 == Bind(SerialWrite(c, "enable"),
                   LAMBDA x : SerialReadUntil(x, {ENABLE_PROMPT, PASSWORD_PROMPT}))
        c2 == Bind(c1, LAMBDA x :
                  IF x.out = PASSWORD_PROMPT
                  THEN Bind(SerialWrite(x, NEWLINE),
                            LAMBDA y : SerialReadUntil(y, {ENABLE_PROMPT}))
                  ELSE {x})
        c3 == Bind(c2, LAMBDA x :
                  IF x.out # ENABLE_PROMPT
                  THEN {Raise(x, "SerialConnectionError", "Failed to enter enable mode")}
                  ELSE {[x EXCEPT !.tr.in_enable_mode = TRUE]})
    IN  Reraise(c3, "SerialConnectionError")

SerialExpectedPrompt(tr) ==
    IF tr.in_config_mode THEN CONFIG_PROMPT
    ELSE IF tr.in_enable_mode THEN ENABLE_PROMPT
    ELSE USER_PROMPT

\* A slip: the command is sent in whatever mode the session is in.
SerialEnsureEnableSkipped(c, command) == {c}

\* send_command's first step: outside enable mode, enable is attempted before any
\* command but quit and exit.
SerialEnsureEnable(c, command) ==
    IF ~c.tr.in_enable_mode /\ command \notin {"quit", "exit"}
    THEN Bind(SerialEnterEnableMode(c), LAMBDA x :
             IF ~x.tr.in_enable_mode
             THEN {Raise(x, "CommandError", "Failed to enter enable mode")}
             ELSE {x})
    ELSE {c}

\* A slip: the flag is set when the command is written, before the prompt is awaited.
SerialConfigureTerminalEager(x, command) ==
    Bind(SerialWrite([x EXCEPT !.tr.in_config_mode = TRUE], command),
         LAMBDA y : SerialReadUntil(y, {CONFIG_PROMPT}))

\* send_command's branch for "configure terminal": the flag is set once the config
\* prompt has been read.
SerialConfigureTerminal(x, command) ==
    Bind(Bind(SerialWrite(x, command),
              LAMBDA y : SerialReadUntil(y, {CONFIG_PROMPT})),
         LAMBDA y : IF y.out = CONFIG_PROMPT
                    THEN {[y EXCEPT !.tr.in_config_mode = TRUE]}
                    ELSE {Raise(y, "CommandError", "Failed to enter config mode")})

SerialSendCommand(c, command) ==
    IF ~SerialIsConnected(c.tr)
    THEN {Raise(c, "SerialConnectionError", "Serial port not connected")}
    ELSE
    LET c1 == SerialEnsureEnable(c, command)
        c2 == Bind(c1, LAMBDA x :
                  IF command = "configure terminal"
                  THEN SerialConfigureTerminal(x, command)
                  ELSE
                  LET x1 == IF command \in {"end", "exit"} /\ x.tr.in_config_mode
                            THEN [x EXCEPT !.tr.in_config_mode = FALSE]
                            ELSE x
                  IN  Bind(SerialWrite(x1, command),
                           LAMBDA y : SerialReadUntil(y, {SerialExpectedPrompt(x1.tr)})))
    IN  Reraise(c2, "CommandError")

SerialConnect(c) ==
    IF c.tr.handle = "open" THEN {c}
    ELSE
    LET c0 == { [c EXCEPT !.tr.handle = "open"],
                Raise(c, "SerialException", "could not open port") }
        c1 == Bind(c0, LAMBDA x : SerialHandleInitialConnection(x))
        c2 == Bind(c1, LAMBDA x :
                  IF ~x.tr.in_enable_mode THEN SerialEnterEnableMode(x) ELSE {x})
        c3 == Bind(c2, LAMBDA x : SerialSendCommand(x, "terminal length 0"))
        c4 == Bind(c3, LAMBDA x : SerialSendCommand(x, "terminal width 0"))
    IN  NoOutput(Reraise(c4, "SerialConnectionError"))

\* A slip: neither the inner handlers nor the finally clause; a failed "end" or restore
\* escapes and leaves the object as it was.
SerialDisconnectNoFinally(c) ==
    LET body ==
          IF c.tr.handle = "open"
          THEN Bind(IF c.tr.in_config_mode THEN SerialSendCommand(c, "end") ELSE {c},
                    LAMBDA x : SerialSendCommand(x, "terminal length 24"))
          ELSE {c}
    IN  NoOutput({ IF x.exc = "none"
                   THEN [x EXCEPT !.tr.handle = "none", !.tr.in_enable_mode = FALSE,
                                  !.tr.in_config_mode = FALSE]
                   ELSE x : x \in body })

SerialDisconnect(c) ==
    LET body ==
          IF c.tr.handle = "open"
          THEN LET c1 == IF c.tr.in_config_mode
                         THEN Swallow(SerialSendCommand(c, "end"))
                         ELSE {c}
                   c2 == Bind(c1, LAMBDA x :
                             Swallow(SerialSendCommand(x, "terminal length 24")))
               IN  \* serial.close() returns or raises; either way what follows is the same
                   c2
          ELSE {c}
    IN  NoOutput({ [x EXCEPT !.exc = "none", !.msg = "", !.tr.handle = "none",
                             !.tr.in_enable_mode = FALSE, !.tr.in_config_mode = FALSE]
                   : x \in body })

(***************************************************************************)
(* TelnetConnection                                                        *)
(***************************************************************************)
TELNET_PROMPTS == {USER_PROMPT, ENABLE_PROMPT, CONFIG_PROMPT, INTERFACE_PROMPT, VLAN_PROMPT}

\* What the accumulated output can end with when a read returns.
TelnetOutputs ==
    TELNET_PROMPTS \cup {USERNAME_PROMPT, PASSWORD_PROMPT, PRESS_RETURN, INITIAL_DIALOG, "none"}

\* socket.send: the data is sent, or the socket raises.
TelnetSend(c, data) ==
    { [c EXCEPT !.writes = Append(@, data)], Raise(c, "OSError", "socket error") }

\* _read_until_prompt: returns the output when one of the five prompts matches, and
\* returns whatever it has (never raises) at the deadline or when recv fails.
TelnetReadUntilPrompt(c) ==
    { [c EXCEPT !.out = p, !.reads = Logged(c, p)] : p \in TelnetOutputs }

TelnetIsConnected(tr) == tr.connected /\ tr.handle # "none"

\* A slip: a password prompt without a configured password is fatal, as a username
\* prompt without a username is.
TelnetAnswerPasswordRequired(x) ==
    IF x.tr.password
    THEN Bind(TelnetSend(x, "<password>"), LAMBDA y : TelnetReadUntilPrompt(y))
    ELSE {Raise(x, "TelnetConnectionError", "Password required but not provided")}

\* The answer to a password prompt in the handshake: the password, or a bare newline.
TelnetAnswerPassword(x) ==
    IF x.tr.password
    THEN Bind(TelnetSend(x, "<password>"), LAMBDA y : TelnetReadUntilPrompt(y))
    ELSE Bind(TelnetSend(x, NEWLINE), LAMBDA y : TelnetReadUntilPrompt(y))

TelnetHandleInitialConnection(c) ==
    LET c1 == TelnetReadUntilPrompt(c)
        c2 == Bind(c1, LAMBDA x :
                  IF x.out = USERNAME_PROMPT
                  THEN IF x.tr.username
                       THEN Bind(TelnetSend(x, "<username>"),
                                 LAMBDA y : TelnetReadUntilPrompt(y))
                       ELSE {Raise(x, "TelnetConnectionError",
                                   "Username required but not provided")}
                  ELSE {x})
        c3 == Bind(c2, LAMBDA x :
                  IF x.out = PASSWORD_PROMPT THEN TelnetAnswerPassword(x) ELSE {x})
        c4 == Bind(c3, LAMBDA x :
                  IF x.out = PRESS_RETURN
                  THEN Bind(TelnetSend(x, NEWLINE), LAMBDA y : TelnetReadUntilPrompt(y))
                  ELSE {x})
        c5 == Bind(c4, LAMBDA x :
                  IF x.out = INITIAL_DIALOG
                  THEN Bind(TelnetSend(x, "no"), LAMBDA y : TelnetReadUntilPrompt(y))
                  ELSE {x})
    IN  c5

TelnetEnterEnableMode(c) ==
    IF c.tr.in_enable_mode THEN {c}
    ELSE
    LET c1 == Bind(TelnetSend(c, "enable"), LAMBDA x : TelnetReadUntilPrompt(x))
        c2 == Bind(c1, LAMBDA x :
                  IF x.out = PASSWORD_PROMPT
                  THEN Bind(TelnetSend(x, NEWLINE), LAMBDA y : TelnetReadUntilPrompt(y))
                  ELSE {x})
        c3 == Bind(c2, LAMBDA x :
                  IF x.out # ENABLE_PROMPT
                  THEN {Raise(x, "TelnetConnectionError", "Failed to enter enable mode")}
                  ELSE {[x EXCEPT !.tr.in_enable_mode = TRUE]})
    IN  Reraise(c3, "TelnetConnectionError")

\* A slip: a failure to enter enable mode is fatal to connect, as it is on Serial.
TelnetConnectEnableRequired(c) ==
    IF c.tr.connected THEN {c}
    ELSE
    LET s  == [c EXCEPT !.tr.handle = "open"]
        c0 == { s, Raise(s, "ConnectionRefusedError", "Connection refused") }
        c1 == Bind(c0, LAMBDA x : TelnetHandleInitialConnection(x))
        c2 == Bind(c1, LAMBDA x : TelnetEnterEnableMode(x))
        c3 == Bind(c2, LAMBDA x : {[x EXCEPT !.tr.connected = TRUE]})
    IN  NoOutput(Reraise(c3, "TelnetConnectionError"))

TelnetConnect(c) ==
    IF c.tr.connected THEN {c}
    ELSE
    LET \* socket.socket() is assigned to self.socket before socket.connect() is tried
        s  == [c EXCEPT !.tr.handle = "open"]
        c0 == { s, Raise(s, "ConnectionRefusedError", "Connection refused") }
        c1 == Bind(c0, LAMBDA x : TelnetHandleInitialConnection(x))
        c2 == Bind(c1, LAMBDA x : Swallow(TelnetEnterEnableMode(x)))
        c3 == Bind(c2, LAMBDA x : {[x EXCEPT !.tr.connected = TRUE]})
    IN  NoOutput(Reraise(c3, "TelnetConnectionError"))

TelnetDisconnect(c) ==
    { [c EXCEPT !.tr.handle = "none", !.tr.connected = FALSE,
                !.tr.in_enable_mode = FALSE, !.tr.in_config_mode = FALSE] }

TelnetSendCommand(c, command) ==
    IF ~TelnetIsConnected(c.tr)
    THEN {Raise(c, "TelnetConnectionError", "Not connected to switch")}
    ELSE Reraise(Bind(TelnetSend(c, command), LAMBDA x : TelnetReadUntilPrompt(x)),
                 "CommandError")

(***************************************************************************)
(* SSHConnection                                                           *)
(***************************************************************************)
\* A slip: asks only whether the client object exists, which it always does.
SSHIsConnectedClientOnly(tr) == TRUE

SSHIsConnected(tr) == tr.shell /\ tr.handle = "open"

SSHConnect(c) ==
    LET c0 == { [c EXCEPT !.tr.handle = "open"],
                Raise(c, "AuthenticationException", "Authentication failed") }
        c1 == Bind(c0, LAMBDA x :
                  { [x EXCEPT !.tr.shell = TRUE], Raise(x, "SSHException", "channel error") })
        c2 == Bind(c1, LAMBDA x : { x, Raise(x, "OSError", "socket error") })
    IN  Reraise(c2, "SSHConnectionError")

SSHSendCommand(c, command) ==
    IF ~SSHIsConnected(c.tr)
    THEN {Raise(c, "SSHConnectionError", "Not connected to switch")}
    ELSE
    LET c1 == { [c EXCEPT !.writes = Append(@, command)],
                Raise(c, "OSError", "socket error") }
        c2 == Bind(c1, LAMBDA x :
                  { [x EXCEPT !.out = "output"],
                    Raise(x, "UnicodeDecodeError", "invalid start byte") })
    IN  Reraise(c2, "CommandError")

SSHDisconnect(c) == { [c EXCEPT !.tr.shell = FALSE, !.tr.handle = "none"] }

(***************************************************************************)
(* SwitchConnectionBase: dispatch on the object's class                    *)
(***************************************************************************)
IsConnected(tr) ==
    CASE tr.kind = "serial" -> SerialIsConnected(tr)
      [] tr.kind = "telnet" -> TelnetIsConnected(tr)
      [] tr.kind = "ssh"    -> SSHIsConnected(tr)

Connect(c) ==
    CASE c.tr.kind = "serial" -> SerialConnect(c)
      [] c.tr.kind = "telnet" -> TelnetConnect(c)
      [] c.tr.kind = "ssh"    -> SSHConnect(c)

Disconnect(c) ==
    CASE c.tr.kind = "serial" -> SerialDisconnect(c)
      [] c.tr.kind = "telnet" -> TelnetDisconnect(c)
      [] c.tr.kind = "ssh"    -> SSHDisconnect(c)

SendCommand(c, command) ==
    CASE c.tr.kind = "serial" -> SerialSendCommand(c, command)
      [] c.tr.kind = "telnet" -> TelnetSendCommand(c, command)
      [] c.tr.kind = "ssh"    -> SSHSendCommand(c, command)

\* The error send_command raises on a transport that is not connected.
NotConnectedError(kind) ==
    CASE kind = "serial" -> "SerialConnectionError"
      [] kind = "telnet" -> "TelnetConnectionError"
      [] kind = "ssh"    -> "SSHConnectionError"

(***************************************************************************)
(* Python values of a configuration map, and their truth value             *)
(***************************************************************************)
Str(s) == [ty |-> "str", s |-> s, v |-> 0, frac |-> 0]
IntV(n) == [ty |-> "int", s |-> "", v |-> n, frac |-> 0]
\* n + frac/10
FloatV(n, f) == [ty |-> "float", s |-> "", v |-> n, frac |-> f]
None == [ty |-> "none", s |-> "", v |-> 0, frac |-> 0]

Truthy(x) ==
    CASE x.ty = "none" -> FALSE
      [] x.ty = "str" -> x.s # ""
      [] OTHER -> x.v # 0 \/ x.frac # 0

IsNumber(x) == x.ty \in {"int", "float"}
Positive(x) == x.v > 0 \/ (x.v = 0 /\ x.frac > 0)
NumIn(x, S) == \E y \in S : x.v = y.v /\ x.frac = y.frac

\* A configuration subsection: a dict d, or something that is not a dict.
Dict(d) == [isDict |-> TRUE, d |-> d]
NotADict == [isDict |-> FALSE, d |-> <<>>]
Has(config, k) == k \in DOMAIN config.d
Get(config, k, default) == IF Has(config, k) THEN config.d[k] ELSE default

Built(tr) == [exc |-> "none", msg |-> "", tr |-> tr]
Raised(exc, msg) == [exc |-> exc, msg |-> msg, tr |-> NoObj]

(***************************************************************************)
(* The constructors                                                        *)
(***************************************************************************)
\* A slip: the baud rate is left for the serial library to reject when the port is opened.
SerialInitNoBaudrateCheck(port, baudrate, timeout, parity, stopbits, bytesize) ==
    IF ~Truthy(port) THEN Raised("ValueError", "Port cannot be empty")
    ELSE IF ~IsNumber(timeout) \/ ~Positive(timeout)
    THEN Raised("ValueError", "Timeout must be a positive number")
    ELSE IF parity \notin {Str("N"), Str("E"), Str("O"), Str("M"), Str("S")}
    THEN Raised("ValueError", "Invalid parity value")
    ELSE IF ~IsNumber(stopbits) \/ ~NumIn(stopbits, {IntV(1), FloatV(1, 5), IntV(2)})
    THEN Raised("ValueError", "Invalid stopbits value")
    ELSE IF ~(bytesize.ty = "int") \/ ~NumIn(bytesize, {IntV(5), IntV(6), IntV(7), IntV(8)})
    THEN Raised("ValueError", "Invalid bytesize value")
    ELSE Built(NewTransport("serial", FALSE, FALSE))

SerialInit(port, baudrate, timeout, parity, stopbits, bytesize) ==
    IF ~Truthy(port) THEN Raised("ValueError", "Port cannot be empty")
    ELSE IF ~(baudrate.ty = "int") \/ ~Positive(baudrate)
    THEN Raised("ValueError", "Baudrate must be a positive integer")
    ELSE IF ~IsNumber(timeout) \/ ~Positive(timeout)
    THEN Raised("ValueError", "Timeout must be a positive number")
    ELSE IF parity \notin {Str("N"), Str("E"), Str("O"), Str("M"), Str("S")}
    THEN Raised("ValueError", "Invalid parity value")
    ELSE IF ~IsNumber(stopbits) \/ ~NumIn(stopbits, {IntV(1), FloatV(1, 5), IntV(2)})
    THEN Raised("ValueError", "Invalid stopbits value")
    ELSE IF ~(bytesize.ty = "int") \/ ~NumIn(bytesize, {IntV(5), IntV(6), IntV(7), IntV(8)})
    THEN Raised("ValueError", "Invalid bytesize value")
    ELSE Built(NewTransport("serial", FALSE, FALSE))

TelnetInit(host, username, password, port, timeout) ==
    IF ~Truthy(host) THEN Raised("ValueError", "Host cannot be empty")
    ELSE IF ~(port.ty = "int") \/ ~Positive(port)
    THEN Raised("ValueError", "Port must be a positive integer")
    ELSE IF ~IsNumber(timeout) \/ ~Positive(timeout)
    THEN Raised("ValueError", "Timeout must be a positive number")
    ELSE Built(NewTransport("telnet", Truthy(username), Truthy(password)))

SSHInit(host, username, password, port, timeout) ==
    IF ~Truthy(host) THEN Raised("ValueError", "Host cannot be empty")
    ELSE IF ~Truthy(username) THEN Raised("ValueError", "Username cannot be empty")
    ELSE IF ~Truthy(password) THEN Raised("ValueError", "Password cannot be empty")
    ELSE IF ~(port.ty = "int") \/ ~Positive(port)
    THEN Raised("ValueError", "Port must be a positive integer")
    ELSE IF ~IsNumber(timeout) \/ ~Positive(timeout)
    THEN Raised("ValueError", "Timeout must be a positive number")
    ELSE Built(NewTransport("ssh", TRUE, TRUE))

(***************************************************************************)
(* ConnectionFactory                                                       *)
(***************************************************************************)
CreateSSHConnection(config) ==
    IF ~config.isDict THEN Raised("ValueError", "SSH configuration must be a dictionary")
    ELSE IF \E k \in {"host", "username", "password"} : ~Has(config, k)
    THEN Raised("ValueError", "Missing required SSH configuration fields")
    ELSE SSHInit(config.d["host"], config.d["username"], config.d["password"],
                 Get(config, "port", IntV(22)), Get(config, "timeout", IntV(10)))

CreateTelnetConnection(config) ==
    IF ~config.isDict THEN Raised("ValueError", "Telnet configuration must be a dictionary")
    ELSE IF ~Has(config, "host")
    THEN Raised("ValueError", "Missing required telnet configuration field: host")
    ELSE TelnetInit(config.d["host"], Get(config, "username", None),
                    Get(config, "password", None),
                    Get(config, "port", IntV(23)), Get(config, "timeout", IntV(10)))

CreateSerialConnection(config) ==
    IF ~config.isDict THEN Raised("ValueError", "Serial configuration must be a dictionary")
    ELSE IF ~Has(config, "port")
    THEN Raised("ValueError", "Missing required serial configuration field: port")
    ELSE SerialInit(config.d["port"], Get(config, "baudrate", IntV(9600)),
                    Get(config, "timeout", IntV(10)), Get(config, "parity", Str("N")),
                    Get(config, "stopbits", IntV(1)), Get(config, "bytesize", IntV(8)))

\* A slip: an unknown tag falls back to ssh.
CreateConnectionDefaultSSH(connection_type, config) ==
    IF connection_type = "telnet" THEN CreateTelnetConnection(config)
    ELSE IF connection_type = "serial" THEN CreateSerialConnection(config)
    ELSE CreateSSHConnection(config)

CreateConnection(connection_type, config) ==
    IF connection_type = "ssh" THEN CreateSSHConnection(config)
    ELSE IF connection_type = "telnet" THEN CreateTelnetConnection(config)
    ELSE IF connection_type = "serial" THEN CreateSerialConnection(config)
    ELSE Raised("ValueError", "Unsupported connection type")

(***************************************************************************)
(* ConnectionManager.  A manager computation is                            *)
(*   [m, ts, exc, writes, out, created, calls, sent, ret]                  *)
(* the manager's fields, the heap of transport objects, the exception in   *)
(* flight, what was written to the device, the last read's outcome, the    *)
(* ids of the transports the call constructed and the methods it called on *)
(* transports; and, for the callers of a manager, the commands they handed *)
(* to it and the value returned.                                           *)
(***************************************************************************)
Ids == 1..MaxTransports
FreeIds(ts) == { i \in Ids : ts[i] = NoObj }
NextId(ts) == CHOOSE i \in FreeIds(ts) : \A j \in FreeIds(ts) : i <= j

NewManager(connection_type, section) ==
    [connection_type |-> connection_type, section |-> section, conn |-> 0]

MStart(m, ts) ==
    [m |-> m, ts |-> ts, exc |-> "none", writes |-> <<>>, out |-> "none", created |-> {},
     calls |-> <<>>, sent |-> <<>>, ret |-> "none"]

\* A call of a method of transport object i inside a manager computation.
OnTransport(mc, i, results) ==
    { [mc EXCEPT !.ts[i] = r.tr, !.exc = r.exc, !.writes = mc.writes \o r.writes,
                 !.out = r.out] : r \in results }

\* The record of one call of a transport's method: which method, whether the transport
\* reported connected when it was called, and whether it returned.
Noted(method, wasConnected, results) ==
    { [x EXCEPT !.calls = Append(@, [method |-> method, connected |-> wasConnected,
                                     ok |-> x.exc = "none"])] : x \in results }

\* A slip: the owned transport is not asked.
MgrIsConnectedCachedOnly(m, ts) == m.conn # 0

MgrIsConnected(m, ts) == m.conn # 0 /\ IsConnected(ts[m.conn])

\* A slip: the new transport is connected whatever auto_connect says.
MgrGetConnectionAlwaysConnects(mc, auto_connect) ==
    IF mc.m.conn # 0 /\ IsConnected(mc.ts[mc.m.conn]) THEN {mc}
    ELSE IF ~mc.m.section.isDict THEN {[mc EXCEPT !.exc = "ValueError"]}
    ELSE
    LET built == CreateConnection(mc.m.connection_type, mc.m.section)
        n == NextId(mc.ts)
        mc1 == [mc EXCEPT !.ts[n] = built.tr, !.m.conn = n, !.created = @ \cup {n}]
    IN  IF built.exc # "none" THEN {[mc EXCEPT !.exc = built.exc]}
        ELSE Noted("connect", FALSE, OnTransport(mc1, n, Connect(Start(built.tr))))

MgrGetConnection(mc, auto_connect) ==
    IF mc.m.conn # 0 /\ IsConnected(mc.ts[mc.m.conn]) THEN {mc}
    ELSE IF ~mc.m.section.isDict THEN {[mc EXCEPT !.exc = "ValueError"]}
    ELSE
    LET built == CreateConnection(mc.m.connection_type, mc.m.section)
        n == NextId(mc.ts)
        mc1 == [mc EXCEPT !.ts[n] = built.tr, !.m.conn = n, !.created = @ \cup {n}]
    IN  IF built.exc # "none" THEN {[mc EXCEPT !.exc = built.exc]}
        ELSE IF auto_connect
             THEN Noted("connect", IsConnected(built.tr),
                        OnTransport(mc1, n, Connect(Start(built.tr))))
             ELSE {mc1}

MgrConnect(mc) ==
    IF mc.m.conn = 0 \/ ~IsConnected(mc.ts[mc.m.conn])
    THEN MgrGetConnection(mc, TRUE)
    ELSE {mc}

MgrDisconnect(mc) ==
    IF mc.m.conn # 0
    THEN { [x EXCEPT !.m.conn = 0]
           : x \in Noted("disconnect", IsConnected(mc.ts[mc.m.conn]),
                         OnTransport(mc, mc.m.conn, Disconnect(Start(mc.ts[mc.m.conn])))) }
    ELSE {mc}

\* A slip: a failed connect is logged and the command forwarded all the same.
MgrSendCommandForwardsAnyway(mc, command) ==
    LET c1 == IF ~MgrIsConnected(mc.m, mc.ts) THEN MgrConnect(mc) ELSE {mc}
    IN  UNION { IF x.m.conn = 0 THEN {x}
                ELSE Noted("send_command", IsConnected(x.ts[x.m.conn]),
                           OnTransport([x EXCEPT !.exc = "none"], x.m.conn,
                                       SendCommand(Start(x.ts[x.m.conn]), command)))
                : x \in c1 }

MgrSendCommand(mc, command) ==
    LET c1 == IF ~MgrIsConnected(mc.m, mc.ts) THEN MgrConnect(mc) ELSE {mc}
    IN  Bind(c1, LAMBDA x :
             Noted("send_command", IsConnected(x.ts[x.m.conn]),
                   OnTransport(x, x.m.conn, SendCommand(Start(x.ts[x.m.conn]), command))))

(***************************************************************************)
(* The calls a client makes                                                *)
(***************************************************************************)
CommandInputs == {"configure terminal", "end", "exit", "quit", "show vlan"}
MgrCommandInputs == {"configure terminal", "show vlan"}

FreshHist == [lifecycle |-> "new", everConnected |-> FALSE]

NoCall ==
    [op |-> "none", t |-> 0, cmd |-> "", exc |-> "none", msg |-> "", writes |-> <<>>,
     reads |-> <<>>, out |-> "none", pre |-> FreshHist, preEnable |-> FALSE,
     preConfig |-> FALSE, preConnected |-> FALSE, created |-> {}, calls |-> <<>>,
     sent |-> <<>>, ret |-> "none"]

NoManager == NewManager("none", NotADict)

\* The arguments the three transports are constructed with (valid ones).
ConstructorArgs ==
    {<<"serial", FALSE, FALSE>>, <<"ssh", TRUE, TRUE>>}
        \cup { <<"telnet", u, p>> : u \in BOOLEAN, p \in BOOLEAN }

Called(op, i, cmd, r) ==
    [op |-> op, t |-> i, cmd |-> cmd, exc |-> r.exc, msg |-> r.msg, writes |-> r.writes,
     reads |-> r.reads, out |-> r.out, pre |-> hist[i],
     preEnable |-> transports[i].in_enable_mode,
     preConfig |-> transports[i].in_config_mode,
     preConnected |-> IsConnected(transports[i]), created |-> {}, calls |-> <<>>,
     sent |-> <<>>, ret |-> "none"]

\* connect() on transport object i, run from the computation c.
DoConnect(i, c) ==
    /\ transports[i] # NoObj
    /\ \E r \in Connect(c) :
          /\ transports' = [transports EXCEPT ![i] = r.tr]
          /\ hist' = [hist EXCEPT ![i] =
                 [lifecycle |-> IF r.exc = "none" THEN "connected" ELSE "connect_failed",
                  everConnected |-> @.everConnected \/ r.exc = "none"]]
          /\ last' = Called("connect", i, "", r)
    /\ UNCHANGED <<mgr, factoryVars, catalogVars, harnessVars>>

CallConnect(i) == DoConnect(i, Start(transports[i]))

\* connect(), observed read by read.
TraceConnect(i) == DoConnect(i, StartLogged(transports[i]))

CallDisconnect(i) ==
    /\ transports[i] # NoObj
    /\ \E r \in Disconnect(Start(transports[i])) :
          /\ transports' = [transports EXCEPT ![i] = r.tr]
          /\ hist' = [hist EXCEPT ![i].lifecycle = "disconnected"]
          /\ last' = Called("disconnect", i, "", r)
    /\ UNCHANGED <<mgr, factoryVars, catalogVars, harnessVars>>

CallSendCommand(i) ==
    /\ transports[i] # NoObj
    /\ \E command \in CommandInputs :
       \E r \in SendCommand(Start(transports[i]), command) :
          /\ transports' = [transports EXCEPT ![i] = r.tr]
          /\ last' = Called("send_command", i, command, r)
    /\ UNCHANGED <<hist, mgr, factoryVars, catalogVars, harnessVars>>

(***************************************************************************)
(* The switch at the other end of a serial line: the mode of its CLI.  It  *)
(* is the environment of SerialConnection.send_command, which the model    *)
(* lets see only what the switch would print.                              *)
(***************************************************************************)
DeviceCommands ==
    {"configure terminal", "interface Gi1/0/1", "vlan 100", "exit", "end", "show vlan",
     "show running-config", "disable"}

DeviceSubModes == {"config-if", "config-vlan"}
DeviceConfigModes == {"config"} \cup DeviceSubModes

\* What the CLI does with one line it receives.
DeviceReceive(mode, line) ==
    IF line = "enable" THEN IF mode = "user" THEN "enable" ELSE mode
    ELSE IF line = "disable" THEN IF mode = "enable" THEN "user" ELSE mode
    ELSE IF line = "configure terminal" THEN IF mode = "enable" THEN "config" ELSE mode
    ELSE IF line = "interface Gi1/0/1"
    THEN IF mode \in DeviceConfigModes THEN "config-if" ELSE mode
    ELSE IF line = "vlan 100"
    THEN IF mode \in DeviceConfigModes THEN "config-vlan" ELSE mode
    ELSE IF line = "exit"
    THEN IF mode \in DeviceSubModes THEN "config"
         ELSE IF mode = "config" THEN "enable"
         ELSE "user"
    ELSE IF line = "end" THEN IF mode \in DeviceConfigModes THEN "enable" ELSE mode
    ELSE mode

RECURSIVE DeviceAfter(_, _)
DeviceAfter(mode, lines) ==
    IF lines = <<>> THEN mode
    ELSE DeviceAfter(DeviceReceive(mode, Head(lines)), Tail(lines))

DevicePrompt(mode) ==
    IF mode = "user" THEN USER_PROMPT
    ELSE IF mode = "enable" THEN ENABLE_PROMPT
    ELSE IF mode = "config" THEN CONFIG_PROMPT
    ELSE IF mode = "config-if" THEN INTERFACE_PROMPT
    ELSE VLAN_PROMPT

\* A run of send_command is one the switch can produce: the prompt its last read
\* matched, if it matched one, is the prompt of the mode the switch is then in.
DeviceProduces(r, mode) ==
    r.out \in {"none", "timeout"} \/ r.out = DevicePrompt(DeviceAfter(mode, r.writes))

\* send_command on a SerialConnection whose switch is followed.
CallCliSendCommand ==
    \E command \in DeviceCommands :
    \E r \in SerialSendCommand(Start(transports[1]), command) :
        /\ DeviceProduces(r, device)
        /\ transports' = [transports EXCEPT ![1] = r.tr]
        /\ device' = DeviceAfter(device, r.writes)
        /\ last' = Called("send_command", 1, command, r)
        /\ UNCHANGED <<hist, mgr, factoryVars, catalogVars, prog, rd, ctx>>

\* disconnect() on it: the switch receives what disconnect writes; what it answers is
\* dropped by disconnect's handlers.
CallCliDisconnect ==
    \E r \in SerialDisconnect(Start(transports[1])) :
        /\ transports' = [transports EXCEPT ![1] = r.tr]
        /\ hist' = [hist EXCEPT ![1].lifecycle = "disconnected"]
        /\ device' = DeviceAfter(device, r.writes)
        /\ last' = Called("disconnect", 1, "", r)
        /\ UNCHANGED <<mgr, factoryVars, catalogVars, prog, rd, ctx>>

\* The calls made on a ConnectionManager.
MCalled(op, cmd, r) ==
    [op |-> op, t |-> mgr.conn, cmd |-> cmd, exc |-> r.exc, msg |-> "", writes |-> r.writes,
     reads |-> <<>>, out |-> r.out, pre |-> FreshHist, preEnable |-> FALSE,
     preConfig |-> FALSE,
     preConnected |-> MgrIsConnected(mgr, transports), created |-> r.created,
     calls |-> r.calls, sent |-> r.sent, ret |-> r.ret]

MgrStep(op, cmd, r) ==
    /\ mgr' = r.m
    /\ transports' = r.ts
    /\ last' = MCalled(op, cmd, r)
    /\ UNCHANGED <<hist, factoryVars, catalogVars, harnessVars>>

\* The bound of the model: a call that would construct a transport needs a free id.
CanBuild == FreeIds(transports) # {}

CallMgrGetConnection ==
    /\ MgrIsConnected(mgr, transports) \/ CanBuild
    /\ \E auto_connect \in BOOLEAN :
       \E r \in MgrGetConnection(MStart(mgr, transports), auto_connect) :
          MgrStep(IF auto_connect THEN "get_connection" ELSE "get_connection_no_connect",
                  "", r)

CallMgrConnect ==
    /\ MgrIsConnected(mgr, transports) \/ CanBuild
    /\ \E r \in MgrConnect(MStart(mgr, transports)) : MgrStep("connect", "", r)

CallMgrDisconnect ==
    \E r \in MgrDisconnect(MStart(mgr, transports)) : MgrStep("disconnect", "", r)

CallMgrSendCommand ==
    /\ MgrIsConnected(mgr, transports) \/ CanBuild
    /\ \E command \in MgrCommandInputs :
       \E r \in MgrSendCommand(MStart(mgr, transports), command) :
          MgrStep("send_command", command, r)

(***************************************************************************)
(* SwitchAPI and the test helpers: callers of a ConnectionManager.  The    *)
(* catalog of the API's own CommandManager holds every command they format.*)
(***************************************************************************)
\* The statements after a return or a raise are not run.
ApiBind(C, F(_)) == UNION { IF c.exc = "none" /\ c.ret = "none" THEN F(c) ELSE {c} : c \in C }

\* self._connection_manager.send_command(command)
ApiSend(c, command) ==
    { [x EXCEPT !.sent = Append(c.sent, [cmd |-> command, ok |-> x.exc = "none"])]
      : x \in MgrSendCommand(c, command) }

\* The statements of an operation, as data:
\*   Send(cmd)              self._connection_manager.send_command(cmd)
\*   Inspect(cmd, replies)  output = ...send_command(cmd), then return False unless the
\*                          device accepted it ("Invalid input"/"Error" in output; for
\*                          show vlan also a listing without the VLAN)
\*   Fail(e)                raise e
\*   ReturnFalse            return False, "..."
Send(cmd) == [do |-> "send", cmd |-> cmd, replies |-> {"ok"}]
Inspect(cmd, replies) == [do |-> "send", cmd |-> cmd, replies |-> replies]
Fail(e) == [do |-> "raise", cmd |-> e, replies |-> {}]
ReturnFalse == [do |-> "return_false", cmd |-> "", replies |-> {}]

ApiStep(x, step) ==
    IF step.do = "raise" THEN {[x EXCEPT !.exc = step.cmd]}
    ELSE IF step.do = "return_false" THEN {[x EXCEPT !.ret = "False"]}
    ELSE UNION { IF y.exc # "none" THEN {y}
                 ELSE { [y EXCEPT !.ret = IF v = "ok" THEN "none" ELSE "False"]
                        : v \in step.replies }
                 : y \in ApiSend(x, step.cmd) }

RECURSIVE ApiRun(_, _)
ApiRun(C, program) ==
    IF program = <<>> THEN C
    ELSE ApiRun(ApiBind(C, LAMBDA x : ApiStep(x, Head(program))), Tail(program))

\* return True, ""
ApiReturnTrue(C) ==
    { IF x.exc = "none" /\ x.ret = "none" THEN [x EXCEPT !.ret = "True"] ELSE x : x \in C }

\* A slip: the operation has no except clause, so a failure leaves it as raised.
ApiCatchNothing(C) == C

\* except Exception as e: return False, f"...{e}"
ApiCatch(C) ==
    { IF x.exc # "none" THEN [x EXCEPT !.exc = "none", !.ret = "False"] ELSE x : x \in C }

\* if not self._connection_manager.is_connected(): raise ...("Not connected to switch")
ApiRequireConnected(c, e) ==
    IF ~MgrIsConnected(c.m, c.ts) THEN {[c EXCEPT !.exc = e]} ELSE {c}

\* The shape of every configuration operation: try: the connected test, the statements,
\* return True; except Exception: return False.
ApiOperation(c, e, program) ==
    ApiCatch(ApiReturnTrue(ApiRun(ApiRequireConnected(c, e), program)))

CreateVlanProgram(named) ==
    <<Send("configure terminal"), Send("vlan 100")>>
        \o (IF named THEN <<Send("name test_vlan")>> ELSE <<>>)
        \o <<Send("end")>>

DeleteVlanProgram == <<Send("configure terminal"), Send("no vlan 100"), Send("end")>>

ConfigureInterfaceProgram == <<Send("configure terminal"), Send("interface Gi1/0/1")>>

AssignPortToVlanProgram(mode, vlanValid) ==
    IF mode \notin {"access", "trunk"} THEN <<Fail("ValueError")>>
    ELSE IF ~vlanValid THEN <<ReturnFalse>>
    ELSE <<Inspect("show vlan", {"ok", "invalid", "unlisted"}),
           Send("configure terminal"), Send("interface Gi1/0/1"), Send("switchport mode"),
           Send("switchport vlan"), Send("no shutdown"), Send("end")>>

ConfigureStpModeProgram(mode) ==
    <<Inspect("enable", {"ok", "invalid"}), Inspect("configure terminal", {"ok", "invalid"})>>
        \o (IF mode \in {"pvst", "rapid-pvst", "mst"}
            THEN <<Inspect("spanning-tree mode", {"ok", "invalid"}),
                   Inspect("exit", {"ok", "invalid"})>>
            ELSE <<ReturnFalse>>)

\* SwitchAPI.send_command: _ensure_connection, then the manager's send_command; every
\* failure leaves as CommandError.
ApiSendCommand(c, command) ==
    { [x EXCEPT !.sent = Append(c.sent, [cmd |-> command, ok |-> x.exc = "none"])]
      : x \in Reraise(Bind(IF ~MgrIsConnected(c.m, c.ts) THEN MgrConnect(c) ELSE {c},
                           LAMBDA y : MgrSendCommand(y, command)),
                      "CommandError") }

\* setup_test_environment's retry loop
max_retries == 3

\* A slip: the last attempt is tested for with attempt == max_retries, which range()
\* never reaches, so the loop ends without raising.
RECURSIVE SetupAttemptsOffByOne(_, _)
SetupAttemptsOffByOne(c, attempt) ==
    IF attempt >= max_retries THEN {c}
    ELSE UNION { IF x.exc = "none" THEN {x}
                 ELSE IF attempt = max_retries THEN {x}
                 ELSE SetupAttemptsOffByOne([x EXCEPT !.exc = "none"], attempt + 1)
                 : x \in Bind(ApiSendCommand(c, "enable"),
                              LAMBDA y : ApiSendCommand(y, "configure terminal")) }

\* for attempt in range(max_retries): enable, configure terminal, break; a failure is
\* re-raised on the last attempt and retried otherwise.
RECURSIVE SetupAttempts(_, _)
SetupAttempts(c, attempt) ==
    IF attempt >= max_retries THEN {c}
    ELSE UNION { IF x.exc = "none" THEN {x}
                 ELSE IF attempt = max_retries - 1 THEN {x}
                 ELSE SetupAttempts([x EXCEPT !.exc = "none"], attempt + 1)
                 : x \in Bind(ApiSendCommand(c, "enable"),
                              LAMBDA y : ApiSendCommand(y, "configure terminal")) }

SetupTestEnvironment(c) ==
    Bind(SetupAttempts(c, 0), LAMBDA x : ApiSendCommand(x, "end"))

\* The calls made on a SwitchAPI and on the helper.
CallApiCreateVlan ==
    \E named \in BOOLEAN :
    \E r \in ApiOperation(MStart(mgr, transports), "VLANOperationError",
                         CreateVlanProgram(named)) :
        MgrStep("create_vlan", "", r)

CallApiDeleteVlan ==
    \E r \in ApiOperation(MStart(mgr, transports), "VLANOperationError",
                         DeleteVlanProgram) :
        MgrStep("delete_vlan", "", r)

CallApiConfigureInterface ==
    \E r \in ApiOperation(MStart(mgr, transports), "PortConfigurationError",
                         ConfigureInterfaceProgram) :
        MgrStep("configure_interface", "", r)

AssignInputs == {<<"access", TRUE>>, <<"bogus", TRUE>>, <<"access", FALSE>>}

CallApiAssignPortToVlan ==
    \E a \in AssignInputs :
    \E r \in ApiOperation(MStart(mgr, transports), "PortConfigurationError",
                         AssignPortToVlanProgram(a[1], a[2])) :
        MgrStep("assign_port_to_vlan", a[1], r)

CallApiConfigureStpMode ==
    \E mode \in {"pvst", "bogus"} :
    \E r \in ApiOperation(MStart(mgr, transports), "STPError",
                         ConfigureStpModeProgram(mode)) :
        MgrStep("configure_stp_mode", mode, r)

\* The bound of the model: every attempt may have to construct a transport.
CallSetupTestEnvironment ==
    /\ MgrIsConnected(mgr, transports) \/ Cardinality(FreeIds(transports)) >= max_retries
    /\ \E r \in SetupTestEnvironment(MStart(mgr, transports)) :
          MgrStep("setup_test_environment", "", r)

(***************************************************************************)
(* CommandManager.  A string is a sequence of tokens; a template is a      *)
(* sequence of literal parts and named placeholders {name}; a parse        *)
(* pattern is a literal or c+ (one or more of one character).              *)
(***************************************************************************)
Lit(text) == [kind |-> "lit", name |-> "", text |-> text]
Ph(name) == [kind |-> "ph", name |-> name, text |-> <<>>]

PatLit(text) == [kind |-> "lit", text |-> text]
PatPlus(ch) == [kind |-> "plus", text |-> <<ch>>]
PatNone == [kind |-> "none", text |-> <<>>]

CatOk(cat, value) == [exc |-> "none", msg |-> "", value |-> value, cat |-> cat]
CatRaised(cat, exc, msg) == [exc |-> exc, msg |-> msg, value |-> <<>>, cat |-> cat]

\* commands[category][command_name] raises KeyError
HasCommand(cmds, category, command_name) ==
    category \in DOMAIN cmds /\ command_name \in DOMAIN cmds[category]

\* A slip: a missing name formats as the empty string (a defaulting mapping).
RECURSIVE StrFormatBlank(_, _)
StrFormatBlank(template, kwargs) ==
    IF template = <<>> THEN [exc |-> "none", value |-> <<>>]
    ELSE LET part == Head(template)
             rest == StrFormatBlank(Tail(template), kwargs)
             piece == IF part.kind = "lit" THEN part.text
                      ELSE IF part.name \in DOMAIN kwargs THEN kwargs[part.name]
                      ELSE <<>>
         IN  [exc |-> "none", value |-> piece \o rest.value]

\* str.format(**kwargs): the parts in order, KeyError at the first missing name.
RECURSIVE StrFormat(_, _)
StrFormat(template, kwargs) ==
    IF template = <<>> THEN [exc |-> "none", value |-> <<>>]
    ELSE LET part == Head(template)
         IN  IF part.kind = "ph" /\ part.name \notin DOMAIN kwargs
             THEN [exc |-> "KeyError", value |-> <<>>]
             ELSE LET rest == StrFormat(Tail(template), kwargs)
                      piece == IF part.kind = "ph" THEN kwargs[part.name] ELSE part.text
                  IN  IF rest.exc # "none" THEN rest
                      ELSE [exc |-> "none", value |-> piece \o rest.value]

\* A slip: the formatted string is stored back into the catalog entry.
FormatCommandInPlace(cat, category, command_name, kwargs) ==
    IF ~HasCommand(cat.commands, category, command_name)
       \/ "command" \notin DOMAIN cat.commands[category][command_name]
    THEN CatRaised(cat, "KeyError", "Command not found")
    ELSE LET r == StrFormat(cat.commands[category][command_name]["command"], kwargs)
         IN  IF r.exc = "KeyError"
             THEN CatRaised(cat, "ValueError", "Missing required parameter")
             ELSE CatOk([cat EXCEPT !.commands[category][command_name]["command"] =
                                        <<Lit(r.value)>>],
                        r.value)

FormatCommand(cat, category, command_name, kwargs) ==
    IF ~HasCommand(cat.commands, category, command_name)
       \/ "command" \notin DOMAIN cat.commands[category][command_name]
    THEN CatRaised(cat, "KeyError", "Command not found")
    ELSE LET r == StrFormat(cat.commands[category][command_name]["command"], kwargs)
         IN  IF r.exc = "KeyError"
             THEN CatRaised(cat, "ValueError", "Missing required parameter")
             ELSE CatOk(cat, r.value)

GetParsePattern(cmds, category, command_name) ==
    IF ~HasCommand(cmds, category, command_name) THEN PatNone
    ELSE IF "parse_pattern" \in DOMAIN cmds[category][command_name]
    THEN cmds[category][command_name]["parse_pattern"]
    ELSE PatNone

\* Python's "not pattern": None or the empty string.
NotPattern(pattern) == pattern.kind = "none" \/ (pattern.kind = "lit" /\ pattern.text = <<>>)

\* The length of the run of ch in s from position i on.
RECURSIVE RunLen(_, _, _)
RunLen(ch, s, i) == IF i > Len(s) \/ s[i] # ch THEN 0 ELSE 1 + RunLen(ch, s, i + 1)

\* The length of the pattern's match starting at position i of s (0: none there).
MatchLen(pattern, s, i) ==
    IF pattern.kind = "plus" THEN RunLen(pattern.text[1], s, i)
    ELSE IF i + Len(pattern.text) - 1 <= Len(s)
            /\ SubSeq(s, i, i + Len(pattern.text) - 1) = pattern.text
    THEN Len(pattern.text)
    ELSE 0

\* A slip: the scan goes on one character after a match's start (overlapping matches).
RECURSIVE FindIterOverlapping(_, _, _)
FindIterOverlapping(pattern, s, pos) ==
    IF pos > Len(s) THEN <<>>
    ELSE LET n == MatchLen(pattern, s, pos)
         IN  IF n > 0
             THEN <<SubSeq(s, pos, pos + n - 1)>> \o FindIterOverlapping(pattern, s, pos + 1)
             ELSE FindIterOverlapping(pattern, s, pos + 1)

\* re.finditer: scan from pos; take the leftmost match, go on after its end.
RECURSIVE FindIter(_, _, _)
FindIter(pattern, s, pos) ==
    IF pos > Len(s) THEN <<>>
    ELSE LET n == MatchLen(pattern, s, pos)
         IN  IF n > 0
             THEN <<SubSeq(s, pos, pos + n - 1)>> \o FindIter(pattern, s, pos + n)
             ELSE FindIter(pattern, s, pos + 1)

ParseResponse(cat, category, command_name, response) ==
    LET pattern == GetParsePattern(cat.commands, category, command_name)
    IN  IF NotPattern(pattern) THEN CatOk(cat, <<response>>)
        ELSE CatOk(cat, FindIter(pattern, response, 1))

\* get_expected_response: the template formatted with kwargs; "" on any KeyError,
\* that of a missing entry or key and that of str.format alike.
GetExpectedResponse(cmds, category, command_name, kwargs) ==
    IF ~HasCommand(cmds, category, command_name)
       \/ "expected_response" \notin DOMAIN cmds[category][command_name]
    THEN <<>>
    ELSE LET r == StrFormat(cmds[category][command_name]["expected_response"], kwargs)
         IN  IF r.exc = "KeyError" THEN <<>> ELSE r.value

\* expected in response
IsSubstring(expected, response) ==
    \E i \in 1..(Len(response) - Len(expected) + 1) :
        SubSeq(response, i, i + Len(expected) - 1) = expected

VerifyResponse(cat, category, command_name, response, kwargs) ==
    LET expected == GetExpectedResponse(cat.commands, category, command_name, kwargs)
    IN  IF expected = <<>> THEN CatOk(cat, <<"True">>)
        ELSE CatOk(cat, IF IsSubstring(expected, response) THEN <<"True">> ELSE <<"False">>)

(***************************************************************************)
(* The catalog the CommandManager loads, and the calls made on it          *)
(***************************************************************************)
Entry(command, expected_response) ==
    "command" :> command @@ "expected_response" :> expected_response

WithPattern(entry, pattern) == entry @@ "parse_pattern" :> pattern

Catalog ==
    "vlan_commands" :>
        (   "create_vlan" :> Entry(<<Lit(<<"vlan ">>), Ph("vlan_id"), Lit(<<" name ">>),
                                     Ph("vlan_name")>>, <<>>)
         @@ "delete_vlan" :> Entry(<<Lit(<<"no vlan ">>), Ph("vlan_id")>>, <<>>)
         @@ "show_vlan" :> WithPattern(Entry(<<Lit(<<"show vlan">>)>>, <<>>), PatPlus("a")))
    @@ "mac_commands" :>
        (   "show_mac" :> WithPattern(Entry(<<Lit(<<"show mac">>)>>, <<>>),
                                      PatLit(<<"a", "a">>))
         @@ "show_count" :> WithPattern(Entry(<<Lit(<<"show mac count">>)>>, <<>>),
                                        PatLit(<<"a", "b">>))
         @@ "clear_mac" :> WithPattern(Entry(<<Lit(<<"clear mac">>)>>, <<>>),
                                       PatLit(<<>>))
         @@ "no_command" :> ("expected_response" :> <<>>))

Categories == {"vlan_commands", "mac_commands", "stp_commands"}
CommandNames ==
    {"create_vlan", "delete_vlan", "show_vlan", "show_mac", "show_count", "clear_mac",
     "no_command"}
ParamNames == {"vlan_id", "vlan_name"}
ParamValues == {<<"10">>, <<>>}
Kwargs == UNION { [K -> ParamValues] : K \in SUBSET ParamNames }

Alphabet == {"a", "b"}
Responses == UNION { [1..n -> Alphabet] : n \in 0..MaxLen }

NoCCall ==
    [op |-> "none", category |-> "", name |-> "", kwargs |-> <<>>, response |-> <<>>,
     tick |-> FALSE, repeat |-> FALSE]
NoCResult == [exc |-> "none", msg |-> "", value |-> <<>>]

CatalogState == [commands |-> commands, file |-> catalogFile]

\* ccall.tick tells two calls in a row apart; ccall.repeat says that the call's
\* arguments are those of the call before it.
SameCall(a, b) ==
    /\ a.op = b.op
    /\ a.category = b.category
    /\ a.name = b.name
    /\ a.kwargs = b.kwargs
    /\ a.response = b.response

CatalogStep(call, r) ==
    /\ ccall' = [call EXCEPT !.tick = ~ccall.tick, !.repeat = SameCall(call, ccall)]
    /\ cresult' = [exc |-> r.exc, msg |-> r.msg, value |-> r.value]
    /\ commands' = r.cat.commands
    /\ catalogFile' = r.cat.file
    /\ UNCHANGED <<transportVars, factoryVars, harnessVars>>

CallFormatCommand ==
    \E category \in Categories, name \in CommandNames, kwargs \in Kwargs :
        CatalogStep([NoCCall EXCEPT !.op = "format_command", !.category = category,
                                    !.name = name, !.kwargs = kwargs],
                    FormatCommand(CatalogState, category, name, kwargs))

CallParseResponse ==
    \E category \in Categories, name \in CommandNames, response \in Responses :
        CatalogStep([NoCCall EXCEPT !.op = "parse_response", !.category = category,
                                    !.name = name, !.response = response],
                    ParseResponse(CatalogState, category, name, response))

\* A catalog whose entries expect something of the response.
VerifyCatalog ==
    "spanning_tree_commands" :>
        (   "show_spanning_tree" :> Entry(<<Lit(<<"show spanning-tree vlan ">>), Ph("vlan")>>,
                                          <<Lit(<<"a">>), Ph("vlan")>>)
         @@ "show_summary" :> Entry(<<Lit(<<"show spanning-tree summary">>)>>,
                                    <<Lit(<<"a", "b">>)>>)
         @@ "clear_counters" :> Entry(<<Lit(<<"clear spanning-tree counters">>)>>, <<>>)
         @@ "bare" :> ("command" :> <<Lit(<<"show version">>)>>))

VerifyCategories == {"spanning_tree_commands", "vlan_commands"}
VerifyNames == {"show_spanning_tree", "show_summary", "clear_counters", "bare", "missing"}
VerifyKwargs == UNION { [K -> {<<"a">>, <<"b">>}] : K \in SUBSET {"vlan"} }

CallVerifyResponse ==
    \E category \in VerifyCategories, name \in VerifyNames, response \in Responses,
       kwargs \in VerifyKwargs :
        CatalogStep([NoCCall EXCEPT !.op = "verify_response", !.category = category,
                                    !.name = name, !.kwargs = kwargs,
                                    !.response = response],
                    VerifyResponse(CatalogState, category, name, response, kwargs))

(***************************************************************************)
(* The calls made on the ConnectionFactory and the SerialConnection        *)
(* constructor                                                             *)
(***************************************************************************)
Absent == [ty |-> "absent", s |-> "", v |-> 0, frac |-> 0]

\* The dict holding the keys of choice that are not Absent.
DictOf(choice) ==
    Dict([k \in { x \in DOMAIN choice : choice[x] # Absent } |-> choice[k]])

PortValues == {Str(""), Str("COM1")}
BaudrateValues == {IntV(0), IntV(-1), IntV(9600), Str("9600")}
TimeoutValues == {IntV(0), IntV(10), FloatV(0, 5)}
ParityValues == {Str("N"), Str("X")}
StopbitsValues == {IntV(1), FloatV(1, 5), IntV(3)}
BytesizeValues == {IntV(8), IntV(9)}

SerialConfigs ==
    { DictOf("port" :> a @@ "baudrate" :> b @@ "timeout" :> c @@ "parity" :> d
             @@ "stopbits" :> e @@ "bytesize" :> f) :
        a \in PortValues \cup {Absent}, b \in BaudrateValues \cup {Absent},
        c \in TimeoutValues \cup {Absent}, d \in ParityValues \cup {Absent},
        e \in StopbitsValues \cup {Absent}, f \in BytesizeValues \cup {Absent} }

NetConfigs ==
    { DictOf("host" :> a @@ "username" :> b @@ "password" :> c @@ "port" :> d) :
        a \in {Str(""), Str("10.0.0.1"), Absent}, b \in {Str(""), Str("admin"), Absent},
        c \in {Str(""), Str("secret"), Absent}, d \in {IntV(0), IntV(2323), Absent} }

Configs == SerialConfigs \cup NetConfigs \cup {NotADict}
Tags == {"ssh", "telnet", "serial", "xbee", "SSH", ""}

NoFCall == [op |-> "none", tag |-> "", config |-> NotADict]
NoFResult == Raised("pending", "")

FactoryCalls ==
    { [op |-> "create_connection", tag |-> tag, config |-> config] :
        tag \in Tags, config \in Configs }

\* SerialConnection(port=..., baudrate=..., ...) called directly
SerialInitCalls ==
    { [op |-> "SerialConnection", tag |-> "serial",
       config |-> Dict("port" :> a @@ "baudrate" :> b @@ "timeout" :> c
                       @@ "parity" :> d @@ "stopbits" :> e @@ "bytesize" :> f)] :
        a \in PortValues, b \in BaudrateValues, c \in TimeoutValues, d \in ParityValues,
        e \in StopbitsValues, f \in BytesizeValues }

CallCreateConnection ==
    /\ fcall.op = "create_connection"
    /\ fresult = NoFResult
    /\ fresult' = CreateConnection(fcall.tag, fcall.config)
    /\ UNCHANGED <<fcall, transportVars, catalogVars, harnessVars>>

CallSerialInit ==
    /\ fcall.op = "SerialConnection"
    /\ fresult = NoFResult
    /\ fresult' = SerialInit(fcall.config.d["port"], fcall.config.d["baudrate"],
                             fcall.config.d["timeout"], fcall.config.d["parity"],
                             fcall.config.d["stopbits"], fcall.config.d["bytesize"])
    /\ UNCHANGED <<fcall, transportVars, catalogVars, harnessVars>>

(***************************************************************************)
(* CommandManager: the operations that change the catalog                  *)
(***************************************************************************)
\* save_commands: the file is rewritten from self.commands, or open() raises.
SaveCommands(cat) ==
    { CatOk([cat EXCEPT !.file = cat.commands], <<>>),
      CatRaised(cat, "OSError", "cannot open the catalog file") }

\* update_command: the entry is replaced in self.commands; nothing is saved.
UpdateCommand(cat, category, command_name, command, expected_response, parse_pattern) ==
    LET cmds0 == IF category \in DOMAIN cat.commands THEN cat.commands
                 ELSE (category :> <<>>) @@ cat.commands
        entry0 == Entry(command, expected_response)
        entry == IF ~NotPattern(parse_pattern) THEN WithPattern(entry0, parse_pattern)
                 ELSE entry0
        cmds1 == [cmds0 EXCEPT ![category] = (command_name :> entry) @@ cmds0[category]]
    IN  { CatOk([cat EXCEPT !.commands = cmds1], <<>>) }

\* add_new_category: a new category is added and saved; an existing one is left alone.
AddNewCategory(cat, category) ==
    IF category \notin DOMAIN cat.commands
    THEN SaveCommands([cat EXCEPT !.commands = (category :> <<>>) @@ cat.commands])
    ELSE { CatOk(cat, <<>>) }

\* remove_command: an existing command is deleted and the catalog saved.
RemoveCommand(cat, category, command_name) ==
    IF HasCommand(cat.commands, category, command_name)
    THEN LET rest == DOMAIN cat.commands[category] \ {command_name}
             cmds1 == [cat.commands EXCEPT
                          ![category] = [n \in rest |-> cat.commands[category][n]]]
         IN  SaveCommands([cat EXCEPT !.commands = cmds1])
    ELSE { CatOk(cat, <<>>) }

\* The arguments the catalog is edited with.
EditCategories == {"vlan_commands", "stp_commands"}
EditNames == {"create_vlan"}
EditCommands == {<<Lit(<<"show spanning-tree">>)>>}
EditPatterns == {PatNone, PatPlus("a")}

CallUpdateCommand ==
    \E category \in EditCategories, name \in EditNames, command \in EditCommands,
       pattern \in EditPatterns :
       \E r \in UpdateCommand(CatalogState, category, name, command, <<>>, pattern) :
          CatalogStep([NoCCall EXCEPT !.op = "update_command", !.category = category,
                                      !.name = name], r)

CallAddNewCategory ==
    \E category \in EditCategories :
       \E r \in AddNewCategory(CatalogState, category) :
          CatalogStep([NoCCall EXCEPT !.op = "add_new_category", !.category = category], r)

CallRemoveCommand ==
    \E category \in EditCategories, name \in EditNames :
       \E r \in RemoveCommand(CatalogState, category, name) :
          CatalogStep([NoCCall EXCEPT !.op = "remove_command", !.category = category,
                                      !.name = name], r)

(***************************************************************************)
(* The wait-for-output loops, tick by tick.  The device's output is a      *)
(* sequence with one element for each pass of the loop before the          *)
(* deadline: a piece of output (a line that is one of the prompts, or      *)
(* other text), "idle" when nothing has arrived, and for a socket "closed" *)
(* (recv returns nothing) or "error" (recv raises).  The deadline passes   *)
(* after the last element.                                                 *)
(***************************************************************************)
ReadReturned(output, pattern) ==
    [exc |-> "none", msg |-> "", output |-> output, pattern |-> pattern]
ReadRaised(exc, msg, output) ==
    [exc |-> exc, msg |-> msg, output |-> output, pattern |-> "none"]

\* for pattern in expected_patterns: if re.search(pattern, output): the first in the list.
FirstMatch(patterns, output) ==
    IF \E j \in 1..Len(patterns) : \E i \in 1..Len(output) : output[i] = patterns[j]
    THEN patterns[CHOOSE j \in 1..Len(patterns) :
                     /\ \E i \in 1..Len(output) : output[i] = patterns[j]
                     /\ \A h \in 1..(j - 1) : \A i \in 1..Len(output) : output[i] # patterns[h]]
    ELSE "none"

\* SerialConnection._read_until from pass k on, with the output read so far; late is
\* what is still waiting in the port when the deadline has passed.
RECURSIVE SerialReadLoop(_, _, _, _, _)
SerialReadLoop(stream, late, expected_patterns, k, output) ==
    IF k > Len(stream)
    THEN ReadRaised("SerialConnectionError", "Timeout waiting for patterns", output \o late)
    ELSE IF stream[k] \in {"idle", "closed", "error"}
    THEN SerialReadLoop(stream, late, expected_patterns, k + 1, output)
    ELSE LET output1 == Append(output, stream[k])
         IN  IF FirstMatch(expected_patterns, output1) # "none"
             THEN ReadReturned(output1, FirstMatch(expected_patterns, output1))
             ELSE SerialReadLoop(stream, late, expected_patterns, k + 1, output1)

\* The prompts _read_until_prompt looks for, in its order.
TelnetPromptList ==
    <<USER_PROMPT, ENABLE_PROMPT, CONFIG_PROMPT, INTERFACE_PROMPT, VLAN_PROMPT>>

\* TelnetConnection._read_until_prompt from pass k on: it returns the output at a
\* prompt, when recv raises, and when the deadline has passed.
RECURSIVE TelnetReadLoop(_, _, _)
TelnetReadLoop(stream, k, output) ==
    IF k > Len(stream) THEN ReadReturned(output, "none")
    ELSE IF stream[k] = "error" THEN ReadReturned(output, "none")
    ELSE IF stream[k] \in {"idle", "closed"} THEN TelnetReadLoop(stream, k + 1, output)
    ELSE LET output1 == Append(output, stream[k])
         IN  IF FirstMatch(TelnetPromptList, output1) # "none"
             THEN ReadReturned(output1, "none")
             ELSE TelnetReadLoop(stream, k + 1, output1)

\* What a pass of the loop can meet.
SerialArrivals == {ENABLE_PROMPT, PASSWORD_PROMPT, "text", "idle"}
TelnetArrivals == {ENABLE_PROMPT, PASSWORD_PROMPT, "text", "idle", "error"}
Streams(arrivals) == UNION { [1..n -> arrivals] : n \in 0..MaxLen }
\* The pattern lists _read_until is called with for the enable step (181, 188).
SerialPatternLists == { <<ENABLE_PROMPT, PASSWORD_PROMPT>>, <<ENABLE_PROMPT>> }
LateOutputs == { <<>>, <<ENABLE_PROMPT>> }

NoRead ==
    [op |-> "none", stream |-> <<>>, late |-> <<>>, patterns |-> <<>>,
     result |-> ReadRaised("pending", "", <<>>)]

ReadCalls ==
    { [NoRead EXCEPT !.op = "_read_until", !.stream = st, !.late = l, !.patterns = ps]
      : st \in Streams(SerialArrivals), l \in LateOutputs, ps \in SerialPatternLists }
    \cup { [NoRead EXCEPT !.op = "_read_until_prompt", !.stream = st,
                          !.patterns = TelnetPromptList]
           : st \in Streams(TelnetArrivals) }

ReadDone(result) ==
    /\ rd.result = NoRead.result
    /\ rd' = [rd EXCEPT !.result = result]
    /\ UNCHANGED <<transportVars, factoryVars, catalogVars, prog, ctx, device>>

CallSerialReadUntil ==
    /\ rd.op = "_read_until"
    /\ ReadDone(SerialReadLoop(rd.stream, rd.late, rd.patterns, 1, <<>>))

CallTelnetReadUntilPrompt ==
    /\ rd.op = "_read_until_prompt"
    /\ ReadDone(TelnetReadLoop(rd.stream, 1, <<>>))

(***************************************************************************)
(* connection_context.py and ConfigManager.  The shared configuration is   *)
(* the 'switch' section of the one ConfigManager instance: a map from keys *)
(* to values.                                                              *)
(***************************************************************************)
\* The methods class ConfigManager defines (config_manager.py 9-83).
ConfigManagerMethods == {"load_config", "get", "get_switch_credentials", "get_test_config"}

\* ConfigManager.get('switch', key, default=default)
ConfigGet(config, key, default) == IF key \in DOMAIN config THEN config[key] ELSE default

\* ConnectionManager.__init__: the connection type is read from the configuration.
ManagerFor(config) == ConfigGet(config, "connection_type", "ssh")

\* The body of both context managers up to the yield; connection_type "" is None.
\* config.set(...) is a method call on ConfigManager: an attribute the class lacks
\* raises AttributeError.
EnterContext(config, connection_type) ==
    IF connection_type # "" /\ "set" \notin ConfigManagerMethods
    THEN [exc |-> "AttributeError", config |-> config, manager |-> "none"]
    ELSE LET config1 == IF connection_type # ""
                        THEN ("connection_type" :> connection_type) @@ config
                        ELSE config
         IN  [exc |-> "none", config |-> config1, manager |-> ManagerFor(config1)]

\* What config.yaml can hold in its switch section.
SharedConfigs ==
    { h @@ t : h \in { <<>>, "host" :> "10.0.0.1" },
               t \in { <<>> } \cup { "connection_type" :> v
                                      : v \in {"ssh", "telnet", "serial", "xbee"} } }
ContextArgs == {"", "ssh", "telnet", "serial"}

NoContext ==
    [op |-> "none", arg |-> "", phase |-> "idle", exc |-> "none", manager |-> "none",
     config |-> <<>>]

Entered(op, connection_type, r) ==
    /\ ctx' = [op |-> op, arg |-> connection_type,
               phase |-> IF r.exc = "none" THEN "entered" ELSE "raised",
               exc |-> r.exc, manager |-> r.manager, config |-> r.config]
    /\ UNCHANGED <<transportVars, factoryVars, catalogVars, prog, rd, device>>

EnterSwitchConnection ==
    /\ ctx.phase # "entered"
    /\ \E connection_type \in ContextArgs :
          Entered("switch_connection", connection_type,
                  EnterContext(ctx.config, connection_type))

EnterConnectionManager ==
    /\ ctx.phase # "entered"
    /\ \E connection_type \in ContextArgs :
          Entered("connection_manager", connection_type,
                  EnterContext(ctx.config, connection_type))

\* The end of the with block: the finally clause disconnects; the configuration stays.
ExitContext ==
    /\ ctx.phase = "entered"
    /\ ctx' = [ctx EXCEPT !.phase = "exited", !.manager = "none"]
    /\ UNCHANGED <<transportVars, factoryVars, catalogVars, prog, rd, device>>

(***************************************************************************)
(* main.py and the test suites' run().  A scenario says what happens in a  *)
(* run of the program: whether what precedes the suites (configuration,    *)
(* manager, SwitchAPI, connection) raises, in which suite                  *)
(* setup_test_environment raises, and which test functions raise.          *)
(***************************************************************************)
SuiteNames == <<"test_vlan", "test_mac_learning", "test_spanning_tree", "test_port">>

\* The test functions each run() calls.
SuiteTests(suite) ==
    CASE suite = "test_vlan" ->
           {"test_vlan_creation", "test_vlan_deletion", "test_vlan_port_assignment",
            "test_vlan_trunk_configuration", "test_vlan_interface", "test_voice_vlan",
            "test_vlan_acl", "test_private_vlan"}
      [] suite = "test_mac_learning" ->
           {"test_mac_table_clear", "test_mac_learning", "test_mac_aging"}
      [] suite = "test_spanning_tree" ->
           {"test_stp_mode", "test_root_bridge_priority", "test_port_cost",
            "test_port_priority"}
      [] suite = "test_port" ->
           {"test_port_status", "test_port_configuration", "test_port_security",
            "test_port_channel"}

Returned(value) == [raised |-> FALSE, value |-> value]
RunRaised == [raised |-> TRUE, value |-> FALSE]

\* test_vlan.run: setup_test_environment is outside any try; the tests are counted.
RunVlan(sc) ==
    IF sc.setupRaises = "test_vlan" THEN RunRaised
    ELSE LET total == Cardinality(SuiteTests("test_vlan"))
             passed_tests == Cardinality(SuiteTests("test_vlan") \ sc.failing)
         IN  Returned(passed_tests = total)

\* run() of the three other suites: everything is inside try/except Exception.
RunGuarded(suite, sc) ==
    IF sc.setupRaises = suite THEN Returned(FALSE)
    ELSE Returned(\A t \in SuiteTests(suite) : t \notin sc.failing)

RunSuite(suite, sc) ==
    IF suite = "test_vlan" THEN RunVlan(sc) ELSE RunGuarded(suite, sc)

\* The suites in order, up to the first that raises: what each run() returned.
RECURSIVE RunSuites(_, _)
RunSuites(k, sc) ==
    IF k > Len(SuiteNames) THEN <<>>
    ELSE LET r == RunSuite(SuiteNames[k], sc)
         IN  IF r.raised THEN <<r>> ELSE <<r>> \o RunSuites(k + 1, sc)

\* main_context_manager: 1 when an exception reaches it, else 0; what run() returns
\* is not looked at.
MainContextManager(sc) ==
    LET results == IF sc.startupRaises THEN <<>> ELSE RunSuites(1, sc)
    IN  [results |-> results,
         exit |-> IF sc.startupRaises \/ \E k \in 1..Len(results) : results[k].raised
                  THEN 1 ELSE 0]

\* main_traditional: the same, with the connection made and closed by hand.
MainTraditional(sc) ==
    LET results == IF sc.startupRaises THEN <<>> ELSE RunSuites(1, sc)
    IN  [results |-> results,
         exit |-> IF sc.startupRaises \/ \E k \in 1..Len(results) : results[k].raised
                  THEN 1 ELSE 0]

Main(sc) == MainContextManager(sc)

AllTests == UNION { SuiteTests(SuiteNames[k]) : k \in 1..Len(SuiteNames) }

\* The runs looked at: at most MaxFailing test functions raise.
Scenarios ==
    [startupRaises : BOOLEAN,
     setupRaises : {"none", "test_runner"} \cup { SuiteNames[k] : k \in 1..Len(SuiteNames) },
     failing : { F \in SUBSET AllTests : Cardinality(F) <= MaxFailing }]

NoScenario == [startupRaises |-> FALSE, setupRaises |-> "none", failing |-> {}]
NoRun ==
    [entry |-> "none", scenario |-> NoScenario, results |-> <<>>, exit |-> -1,
     invoked |-> <<>>, recorded |-> <<>>, raised |-> FALSE, value |-> FALSE]

Ran(entry, r) ==
    /\ prog' = [prog EXCEPT !.entry = entry, !.results = r.results, !.exit = r.exit]
    /\ UNCHANGED <<transportVars, factoryVars, catalogVars, rd, ctx, device>>

CallMain == prog.entry = "none" /\ Ran("main", Main(prog.scenario))

CallMainTraditional ==
    prog.entry = "none" /\ Ran("main_traditional", MainTraditional(prog.scenario))

(***************************************************************************)
(* The runners, call by call.  A trace is                                  *)
(*   [invoked, recorded, raised, value]                                    *)
(* the test functions (or suites) called, in order; the failures recorded, *)
(* in order; whether the runner raised; and what it returned.              *)
(***************************************************************************)
\* The test functions of each run(), in the order it calls them.
SuiteTestList(suite) ==
    CASE suite = "test_vlan" ->
           <<"test_vlan_creation", "test_vlan_deletion", "test_vlan_port_assignment",
             "test_vlan_trunk_configuration", "test_vlan_interface", "test_voice_vlan",
             "test_vlan_acl", "test_private_vlan">>
      [] suite = "test_mac_learning" ->
           <<"test_mac_table_clear", "test_mac_learning", "test_mac_aging">>
      [] suite = "test_spanning_tree" ->
           <<"test_stp_mode", "test_root_bridge_priority", "test_port_cost",
             "test_port_priority">>
      [] suite = "test_port" ->
           <<"test_port_status", "test_port_configuration", "test_port_security",
             "test_port_channel">>

Trace(invoked, recorded, raised, value) ==
    [invoked |-> invoked, recorded |-> recorded, raised |-> raised, value |-> value]

\* The loop of a run(): every test function inside its own try/except.
RECURSIVE RunTests(_, _, _, _, _)
RunTests(tests, k, sc, invoked, recorded) ==
    IF k > Len(tests) THEN Trace(invoked, recorded, FALSE, recorded = <<>>)
    ELSE RunTests(tests, k + 1, sc, Append(invoked, tests[k]),
                  IF tests[k] \in sc.failing THEN Append(recorded, tests[k])
                  ELSE recorded)

\* A run(): setup_test_environment, then the loop.  test_vlan.run lets a failing setup
\* escape; the others return False for it.
RunTrace(suite, sc) ==
    IF sc.setupRaises = suite
    THEN Trace(<<>>, <<>>, suite = "test_vlan", FALSE)
    ELSE RunTests(SuiteTestList(suite), 1, sc, <<>>, <<>>)

\* The positional parameters of every run(switch_api, command_manager, logger), and the
\* arguments of run_all_tests' call test_func(switch_api, logger).
RunParameters == 3
RunnerArguments == 2

\* The suites of run_all_tests, in order.
RunnerSuites == <<"test_vlan", "test_mac_learning", "test_spanning_tree">>

\* A call of a run() with nargs positional arguments: TypeError unless they are as many
\* as its parameters.
InvokeRun(suite, nargs, sc) ==
    IF nargs # RunParameters THEN Trace(<<>>, <<>>, TRUE, FALSE)
    ELSE RunTrace(suite, sc)

\* The loop of run_all_tests: a suite that raises ends it with False; what a suite
\* returns is not looked at.
RECURSIVE RunAllSuites(_, _, _)
RunAllSuites(k, sc, invoked) ==
    IF k > Len(RunnerSuites) THEN Trace(invoked, <<>>, FALSE, TRUE)
    ELSE LET r == InvokeRun(RunnerSuites[k], RunnerArguments, sc)
         IN  IF r.raised
             THEN Trace(Append(invoked, RunnerSuites[k]), <<RunnerSuites[k]>>, FALSE, FALSE)
             ELSE RunAllSuites(k + 1, sc, Append(invoked, RunnerSuites[k]))

RunAllTests(sc) ==
    IF sc.setupRaises = "test_runner" THEN Trace(<<>>, <<>>, FALSE, FALSE)
    ELSE RunAllSuites(1, sc, <<>>)

Traced(entry, r) ==
    /\ prog' = [prog EXCEPT !.entry = entry, !.invoked = r.invoked,
                            !.recorded = r.recorded, !.raised = r.raised,
                            !.value = r.value]
    /\ UNCHANGED <<transportVars, factoryVars, catalogVars, rd, ctx, device>>

CallRun ==
    /\ prog.entry = "none"
    /\ \E k \in 1..Len(SuiteNames) :
          Traced(SuiteNames[k], RunTrace(SuiteNames[k], prog.scenario))

CallRunAllTests ==
    prog.entry = "none" /\ Traced("run_all_tests", RunAllTests(prog.scenario))


(***************************************************************************)
(* The specifications                                                      *)
(***************************************************************************)
NoTransports ==
    /\ transports = [i \in Ids |-> NoObj]
    /\ hist = [i \in Ids |-> FreshHist]
    /\ last = NoCall

IdleTransports == NoTransports /\ mgr = NoManager
IdleFactory == fcall = NoFCall /\ fresult = NoFResult
IdleProgram == prog = NoRun
IdleHarness == IdleProgram /\ rd = NoRead /\ ctx = NoContext /\ device = "none"
IdleCatalog ==
    /\ commands = <<>>
    /\ catalogFile = <<>>
    /\ ccall = NoCCall
    /\ cresult = NoCResult

\* A client driving one transport object, constructed with any of ConstructorArgs.
Init ==
    /\ \E a \in ConstructorArgs :
          transports = [i \in Ids |-> IF i = 1 THEN NewTransport(a[1], a[2], a[3])
                                      ELSE NoObj]
    /\ hist = [i \in Ids |-> FreshHist]
    /\ last = NoCall
    /\ mgr = NoManager
    /\ IdleFactory
    /\ IdleCatalog
    /\ IdleHarness

Next ==
    \/ CallConnect(1)
    \/ CallDisconnect(1)
    \/ CallSendCommand(1)

Spec == Init /\ [][Next]_vars

\* The configuration subsection a manager is given, by connection type.
ManagerConfigs ==
    { <<"serial", DictOf("port" :> Str("COM1"))>>,
      <<"serial", DictOf("port" :> Str("COM1") @@ "baudrate" :> IntV(0))>>,
      <<"ssh", DictOf("host" :> Str("10.0.0.1") @@ "username" :> Str("admin")
                      @@ "password" :> Str("secret"))>>,
      <<"telnet", DictOf("host" :> Str("10.0.0.1"))>>,
      <<"telnet", DictOf("host" :> Str("10.0.0.1") @@ "username" :> Str("admin"))>>,
      <<"telnet", NotADict>>,
      <<"xbee", NotADict>> }

\* Clients driving one ConnectionManager.
InitManager ==
    /\ NoTransports
    /\ \E mc \in ManagerConfigs : mgr = NewManager(mc[1], mc[2])
    /\ IdleFactory
    /\ IdleCatalog
    /\ IdleHarness

NextManager ==
    \/ CallMgrGetConnection
    \/ CallMgrConnect
    \/ CallMgrDisconnect
    \/ CallMgrSendCommand

\* The handshakes, observed read by read: one transport, connected when it is new or
\* disconnected, used, and disconnected again.
NextHandshake ==
    \/ hist[1].lifecycle # "connect_failed" /\ TraceConnect(1)
    \/ CallDisconnect(1)
    \/ CallSendCommand(1)

SpecHandshake == Init /\ [][NextHandshake]_vars

SpecManager == InitManager /\ [][NextManager]_vars

\* The managers a SwitchAPI is built on here: a serial one, an SSH one and one whose
\* configuration lets it build nothing.
ApiConfigs ==
    { <<"serial", DictOf("port" :> Str("COM1"))>>,
      <<"ssh", DictOf("host" :> Str("10.0.0.1") @@ "username" :> Str("admin")
                      @@ "password" :> Str("secret"))>>,
      <<"telnet", NotADict>> }

InitApi ==
    /\ NoTransports
    /\ \E mc \in ApiConfigs : mgr = NewManager(mc[1], mc[2])
    /\ IdleFactory
    /\ IdleCatalog
    /\ IdleHarness

\* Clients driving one SwitchAPI over its ConnectionManager.
NextApi ==
    \/ CallMgrConnect
    \/ CallMgrDisconnect
    \/ CallApiCreateVlan
    \/ CallApiDeleteVlan
    \/ CallApiConfigureInterface
    \/ CallApiAssignPortToVlan
    \/ CallApiConfigureStpMode

SpecApi == InitApi /\ [][NextApi]_vars

\* Clients running setup_test_environment over one SwitchAPI.
NextSetup == CallMgrConnect \/ CallMgrDisconnect \/ CallSetupTestEnvironment

SpecSetup == InitApi /\ [][NextSetup]_vars

\* One call of the factory or of the constructor, with any of the arguments.
InitFactory ==
    /\ IdleTransports
    /\ fcall \in FactoryCalls \cup SerialInitCalls
    /\ fresult = NoFResult
    /\ IdleCatalog
    /\ IdleHarness

NextFactory == CallCreateConnection \/ CallSerialInit

SpecFactory == InitFactory /\ [][NextFactory]_vars

InitCatalog ==
    /\ IdleTransports
    /\ IdleFactory
    /\ commands = Catalog
    /\ catalogFile = Catalog
    /\ ccall = NoCCall
    /\ cresult = NoCResult
    /\ IdleHarness

NextCatalog == CallFormatCommand \/ CallParseResponse

SpecCatalog == InitCatalog /\ [][NextCatalog]_vars

\* Clients verifying responses against a catalog with expected responses.
InitVerify ==
    /\ IdleTransports
    /\ IdleFactory
    /\ commands = VerifyCatalog
    /\ catalogFile = VerifyCatalog
    /\ ccall = NoCCall
    /\ cresult = NoCResult
    /\ IdleHarness

SpecVerify == InitVerify /\ [][CallVerifyResponse]_vars

\* A SerialConnection as its first connect() leaves it when it returns (port open,
\* enable mode), on a switch at its enable prompt.
InitCli ==
    /\ transports = [i \in Ids |->
                        IF i = 1
                        THEN [NewTransport("serial", FALSE, FALSE)
                                  EXCEPT !.handle = "open", !.in_enable_mode = TRUE]
                        ELSE NoObj]
    /\ hist = [i \in Ids |->
                  IF i = 1 THEN [lifecycle |-> "connected", everConnected |-> TRUE]
                  ELSE FreshHist]
    /\ last = NoCall
    /\ mgr = NoManager
    /\ IdleFactory
    /\ IdleCatalog
    /\ IdleProgram /\ rd = NoRead /\ ctx = NoContext
    /\ device = "enable"

\* One session on it, from the connect to the disconnect.
NextCli == CallCliSendCommand \/ CallCliDisconnect

SpecCli == InitCli /\ [][NextCli]_vars

\* Clients editing the catalog.
NextCatalogEdit == CallUpdateCommand \/ CallAddNewCategory \/ CallRemoveCommand

SpecCatalogEdit == InitCatalog /\ [][NextCatalogEdit]_vars

\* One wait-for-output loop, on any of the streams.
InitRead ==
    /\ IdleTransports
    /\ IdleFactory
    /\ IdleCatalog
    /\ IdleProgram
    /\ rd \in ReadCalls
    /\ ctx = NoContext
    /\ device = "none"

NextRead == CallSerialReadUntil \/ CallTelnetReadUntilPrompt

SpecRead == InitRead /\ [][NextRead]_vars

\* Contexts entered and left, one after the other, over one shared configuration.
InitContext ==
    /\ IdleTransports
    /\ IdleFactory
    /\ IdleCatalog
    /\ IdleProgram
    /\ rd = NoRead
    /\ \E config \in SharedConfigs : ctx = [NoContext EXCEPT !.config = config]
    /\ device = "none"

NextContext == EnterSwitchConnection \/ EnterConnectionManager \/ ExitContext

SpecContext == InitContext /\ [][NextContext]_vars

\* One run of the program, in any of the scenarios.
InitMain ==
    /\ IdleTransports
    /\ IdleFactory
    /\ IdleCatalog
    /\ \E sc \in Scenarios : prog = [NoRun EXCEPT !.scenario = sc]
    /\ rd = NoRead
    /\ ctx = NoContext
    /\ device = "none"

NextMain == CallMain \/ CallMainTraditional

SpecMain == InitMain /\ [][NextMain]_vars

\* One call of a runner, in any of the scenarios.
NextRunner == CallRun \/ CallRunAllTests

SpecRunner == InitMain /\ [][NextRunner]_vars

(***************************************************************************)
(* The claims                                                              *)
(***************************************************************************)
LastTransport == transports[last.t]

C2_ConfigModeTracked ==
    (last.op = "send_command" /\ last.exc = "none"
        /\ LastTransport.kind \in {"serial", "telnet"})
        => /\ (last.cmd = "configure terminal" /\ last.out = CONFIG_PROMPT)
                  => LastTransport.in_config_mode
           /\ last.cmd = "end" => ~LastTransport.in_config_mode

\* C3: if ConnectionManager.is_connected() is true, the manager owns a transport (its
\* _connection names a constructed object) and that transport reports connected.
C3_ManagerConnectedOwnsLiveTransport ==
    MgrIsConnected(mgr, transports)
        => /\ mgr.conn \in Ids
           /\ transports[mgr.conn] # NoObj
           /\ IsConnected(transports[mgr.conn])

\* The manager reports connected right after a call on it raised.
C3_Witness ==
    /\ MgrIsConnected(mgr, transports)
    /\ last.op = "send_command"
    /\ last.exc = "CommandError"

OpenHandles == { i \in Ids : transports[i] # NoObj /\ transports[i].handle = "open" }

\* C4: a transport the manager has replaced has had its handle closed, and no two
\* transports of one manager hold an open handle at the same time.
C4_OneOpenHandle ==
    /\ \A i \in Ids : i \in OpenHandles => i = mgr.conn
    /\ Cardinality(OpenHandles) <= 1

\* C5: disconnect() on a transport that was never successfully connected
\* returns normally, sends nothing to the device and leaves is_connected() false.
C5_DisconnectSendsNothing ==
    (last.op = "disconnect" /\ ~last.pre.everConnected)
        => /\ last.exc = "none"
           /\ last.writes = <<>>
           /\ ~IsConnected(LastTransport)

\* C6: create_connection with a tag other than ssh, telnet, serial raises the
\* unsupported-type configuration error and constructs nothing, whatever the
\* configuration map holds.
C6_UnsupportedTagRaises ==
    (fcall.op = "create_connection" /\ fresult # NoFResult
        /\ fcall.tag \notin {"ssh", "telnet", "serial"})
        => /\ fresult.exc = "ValueError"
           /\ fresult.msg = "Unsupported connection type"
           /\ fresult.tr = NoObj

\* "xbee" was refused with a configuration map that is a complete SSH configuration.
C6_Witness ==
    /\ fcall.op = "create_connection"
    /\ fcall.tag = "xbee"
    /\ fcall.config = DictOf("host" :> Str("10.0.0.1") @@ "username" :> Str("admin")
                             @@ "password" :> Str("secret"))
    /\ fresult.exc = "ValueError"

\* The template of the call names a placeholder the call's parameters lack.
MissingParameter(call) ==
    /\ HasCommand(commands, call.category, call.name)
    /\ "command" \in DOMAIN commands[call.category][call.name]
    /\ \E k \in DOMAIN commands[call.category][call.name]["command"] :
          LET part == commands[call.category][call.name]["command"][k]
          IN  part.kind = "ph" /\ part.name \notin DOMAIN call.kwargs

\* C7: format_command on an existing command whose template has a named placeholder
\* that is not among the parameters raises ValueError "Missing required parameter" and
\* returns no string.
C7_MissingParameterRaises ==
    (ccall.op = "format_command" /\ MissingParameter(ccall))
        => /\ cresult.exc = "ValueError"
           /\ cresult.msg = "Missing required parameter"
           /\ cresult.value = <<>>

\* create_vlan formatted with vlan_id but without vlan_name.
C7_Witness ==
    /\ ccall.op = "format_command"
    /\ ccall.category = "vlan_commands"
    /\ ccall.name = "create_vlan"
    /\ DOMAIN ccall.kwargs = {"vlan_id"}
    /\ cresult.exc = "ValueError"

\* C8: a format_command call leaves the in-memory catalog and the catalog file as they
\* were, and a call with the arguments of the call before it yields the same result.
C8_FormatIsPure ==
    [][(ccall' # ccall /\ ccall'.op = "format_command")
          => /\ commands' = commands
             /\ catalogFile' = catalogFile
             /\ ccall'.repeat => cresult' = cresult]_vars

\* The same format_command call twice in a row, returning a string.
C8_Witness ==
    /\ ccall.op = "format_command"
    /\ ccall.repeat
    /\ cresult.exc = "none"
    /\ cresult.value = <<"vlan ", "10", " name ", "10">>

\* The positions of s where a match of the pattern starts.
MatchStarts(pattern, s) == { i \in 1..Len(s) : MatchLen(pattern, s, i) > 0 }

\* P is the set of starts of the non-overlapping matches, leftmost first: no two matches
\* of P overlap, and every other match starts inside a match of P.
IsLeftmostNonOverlapping(P, pattern, s) ==
    /\ \A a \in P, b \in P : a < b => b >= a + MatchLen(pattern, s, a)
    /\ \A m \in MatchStarts(pattern, s) \ P :
          \E a \in P : a < m /\ m < a + MatchLen(pattern, s, a)

\* value lists the matches that start in P, in order of appearance.
ListsMatches(value, P, pattern, s) ==
    /\ Len(value) = Cardinality(P)
    /\ \E f \in [1..Len(value) -> P] :
          /\ \A j \in 1..Len(value), k \in 1..Len(value) : j < k => f[j] < f[k]
          /\ \A j \in 1..Len(value) :
                value[j] = SubSeq(s, f[j], f[j] + MatchLen(pattern, s, f[j]) - 1)

\* The command of the call has a (non-empty) parse_pattern.
HasParsePattern(call) ==
    /\ HasCommand(commands, call.category, call.name)
    /\ "parse_pattern" \in DOMAIN commands[call.category][call.name]
    /\ commands[call.category][call.name]["parse_pattern"].text # <<>>

\* C9: parse_response returns [response] when the command has no parse_pattern (none
\* configured, or an empty one), and otherwise exactly the non-overlapping matches of
\* the pattern in the response, in order of appearance.
C9_ParseResponse ==
    ccall.op = "parse_response"
        => /\ cresult.exc = "none"
           /\ IF ~HasParsePattern(ccall) THEN cresult.value = <<ccall.response>>
              ELSE LET pattern == commands[ccall.category][ccall.name]["parse_pattern"]
                   IN  \E P \in SUBSET MatchStarts(pattern, ccall.response) :
                          /\ IsLeftmostNonOverlapping(P, pattern, ccall.response)
                          /\ ListsMatches(cresult.value, P, pattern, ccall.response)

\* The pattern aa on the response aaa: two places to match, one match returned.
C9_Witness ==
    /\ ccall.op = "parse_response"
    /\ ccall.category = "mac_commands"
    /\ ccall.name = "show_mac"
    /\ ccall.response = <<"a", "a", "a">>
    /\ cresult.value = << <<"a", "a">> >>

\* One of the physical-layer parameters given in the call is invalid: an empty port, a
\* baud rate of 0 or less, a timeout of 0 or less, a parity outside N E O M S, stop
\* bits outside 1, 1.5, 2, a byte size outside 5..8.
InvalidSerialParameter(config) ==
    \/ Has(config, "port") /\ config.d["port"] = Str("")
    \/ Has(config, "baudrate") /\ config.d["baudrate"].ty = "int"
          /\ config.d["baudrate"].v <= 0
    \/ Has(config, "timeout") /\ IsNumber(config.d["timeout"])
          /\ ~Positive(config.d["timeout"])
    \/ Has(config, "parity")
          /\ config.d["parity"] \notin {Str("N"), Str("E"), Str("O"), Str("M"), Str("S")}
    \/ Has(config, "stopbits") /\ IsNumber(config.d["stopbits"])
          /\ ~NumIn(config.d["stopbits"], {IntV(1), FloatV(1, 5), IntV(2)})
    \/ Has(config, "bytesize") /\ IsNumber(config.d["bytesize"])
          /\ ~NumIn(config.d["bytesize"], {IntV(5), IntV(6), IntV(7), IntV(8)})

\* C10: SerialConnection(...) with an invalid physical-layer parameter raises ValueError
\* in the constructor, so that no transport object exists whose port could be opened or
\* written; the same when it is built by ConnectionFactory.create_connection("serial").
C10_SerialValidatesAtConstruction ==
    (fresult # NoFResult /\ fcall.tag = "serial" /\ fcall.config.isDict
        /\ InvalidSerialParameter(fcall.config))
        => /\ fresult.exc = "ValueError"
           /\ fresult.tr = NoObj

\* The factory was given a serial configuration whose only flaw is a baud rate of 0.
C10_Witness ==
    /\ fcall.op = "create_connection"
    /\ fcall.tag = "serial"
    /\ fcall.config = DictOf("port" :> Str("COM1") @@ "baudrate" :> IntV(0))
    /\ fresult.exc = "ValueError"
    /\ fresult.msg = "Baudrate must be a positive integer"

\* The telnet handshake met a password prompt as the k-th thing the device showed:
\* at once, or right after the username was given.
PasswordPromptAt(k) ==
    /\ last.op = "connect"
    /\ LastTransport.kind = "telnet"
    /\ Len(last.reads) >= k
    /\ last.reads[k] = PASSWORD_PROMPT
    /\ k = 2 => last.reads[1] = USERNAME_PROMPT

\* C11: when the Telnet handshake meets a password prompt and no password is configured
\* (with or without a username), the transport answers with a bare newline and goes on:
\* connect() returns normally, unless the socket itself fails.
C11_NoPasswordIsNotFatal ==
    \A k \in {1, 2} :
        (last.op = "connect" /\ PasswordPromptAt(k) /\ ~LastTransport.password)
            => \/ /\ last.exc = "none"
                  /\ Len(last.writes) >= k
                  /\ last.writes[k] = NEWLINE
                  /\ IsConnected(LastTransport)
               \/ /\ last.exc = "TelnetConnectionError"
                  /\ last.msg = "socket error"

\* A transport with a username and no password met only a password prompt and connected.
C11_Witness ==
    /\ PasswordPromptAt(1)
    /\ LastTransport.username
    /\ ~LastTransport.password
    /\ last.exc = "none"
    /\ last.writes[1] = NEWLINE
    /\ last.reads[2] = USER_PROMPT
    /\ IsConnected(LastTransport)

\* Every suite ran and every run() returned True.
AllSuitesPassed ==
    /\ Len(prog.results) = Len(SuiteNames)
    /\ \A k \in 1..Len(prog.results) : ~prog.results[k].raised /\ prog.results[k].value

\* C12: the value main() returns is 0 only if every test of every suite passed, and is 1
\* whenever a suite's run() reports a failed test or an exception reaches main.
C12_ExitCode ==
    prog.entry = "main"
        => /\ prog.exit = 0 => AllSuitesPassed
           /\ ~AllSuitesPassed => prog.exit = 1

\* C13: when update_command, add_new_category or remove_command has returned, the catalog
\* file on disk equals the catalog in memory.
C13_MutatorsPersist ==
    (ccall.op \in {"update_command", "add_new_category", "remove_command"}
        /\ cresult.exc = "none")
        => catalogFile = commands

\* The loop has ended.
ReadEnded == rd.op # "none" /\ rd.result # NoRead.result

\* C14: a wait-for-output loop (Serial _read_until, Telnet _read_until_prompt) ends
\* either by returning output in which one of its prompt patterns matches, or by raising
\* a connection error that carries the output collected; it never returns normally
\* without a matched prompt.
C14_ReadLoopOutcome ==
    ReadEnded
        => \/ /\ rd.result.exc = "none"
              /\ FirstMatch(rd.patterns, rd.result.output) # "none"
           \/ rd.result.exc \in {"SerialConnectionError", "TelnetConnectionError"}

\* C15: entering switch_connection(connection_type=T) or connection_manager(
\* connection_type=T) with T one of ssh, telnet, serial raises nothing, writes T into the
\* shared configuration as the connection type and yields a manager whose connection
\* type is T.
C15_ContextOverridesType ==
    (ctx.phase \in {"entered", "raised"} /\ ctx.arg \in {"ssh", "telnet", "serial"})
        => /\ ctx.exc = "none"
           /\ ConfigGet(ctx.config, "connection_type", "ssh") = ctx.arg
           /\ ctx.manager = ctx.arg

\* C16: Serial connect() returns normally only with the session in enable mode, on every
\* call of connect(), a call after a failed connect() included.
C16_SerialConnectReachesEnable ==
    (last.op = "connect" /\ LastTransport.kind = "serial" /\ last.exc = "none")
        => LastTransport.in_enable_mode

\* connect() on Telnet got through the handshake and sent enable, and the last thing it
\* read was not the enable prompt.
TelnetEnableNotReached ==
    /\ last.op = "connect"
    /\ LastTransport.kind = "telnet"
    /\ \E i \in 1..Len(last.writes) : last.writes[i] = "enable"
    /\ last.reads[Len(last.reads)] # ENABLE_PROMPT

\* C17: when the Telnet handshake succeeds and the enable prompt is not reached,
\* connect() returns normally with is_connected() true and in_enable_mode false, and a
\* send_command that follows is not refused: it writes the command (or fails on the
\* socket).
C17_TelnetEnableFailureTolerated ==
    /\ TelnetEnableNotReached
          => /\ last.exc = "none"
             /\ IsConnected(LastTransport)
             /\ ~LastTransport.in_enable_mode
    /\ (last.op = "send_command" /\ LastTransport.kind = "telnet"
           /\ last.pre.lifecycle = "connected" /\ ~LastTransport.in_enable_mode)
          => /\ last.msg # "Not connected to switch"
             /\ last.exc \in {"none", "CommandError"}
             /\ last.exc = "none" => last.writes = <<last.cmd>>

\* A command was sent in user mode, after a connect() that did not reach enable mode.
C17_Witness ==
    /\ last.op = "send_command"
    /\ LastTransport.kind = "telnet"
    /\ last.pre.lifecycle = "connected"
    /\ ~LastTransport.in_enable_mode
    /\ last.exc = "none"
    /\ last.writes = <<"show vlan">>
    /\ last.out = USER_PROMPT

\* send_command on a Serial transport whose port is open.
SerialCommandSent ==
    /\ last.op = "send_command"
    /\ LastTransport.kind = "serial"
    /\ last.preConnected

Wrote(data) == \E i \in 1..Len(last.writes) : last.writes[i] = data

\* C18: on an open Serial port outside enable mode, send_command(cmd) with cmd other than
\* quit and exit sends enable first; when enable mode is not reached, the call fails with
\* a command error and cmd is not written.  For quit and exit no enable is sent.
C18_SerialEnableReattempt ==
    (SerialCommandSent /\ ~last.preEnable)
        => IF last.cmd \notin {"quit", "exit"}
           THEN /\ Len(last.writes) >= 1
                /\ last.writes[1] = "enable"
                /\ ~LastTransport.in_enable_mode
                      => last.exc = "CommandError" /\ ~Wrote(last.cmd)
           ELSE ~Wrote("enable")

\* A command was refused because the enable prompt did not come.
C18_Witness ==
    /\ SerialCommandSent
    /\ ~last.preEnable
    /\ last.cmd = "show vlan"
    /\ last.exc = "CommandError"
    /\ last.writes = <<"enable">>
    /\ ~LastTransport.in_enable_mode

\* C19: on an open Serial port, send_command("configure terminal") turns in_config_mode
\* on only when the config prompt was received; when the call fails it fails with a
\* command error and in_config_mode keeps the value it had before the call.
C19_ConfigModeOnlyOnPrompt ==
    (SerialCommandSent /\ last.cmd = "configure terminal")
        => /\ (LastTransport.in_config_mode /\ ~last.preConfig)
                  => last.exc = "none" /\ last.out = CONFIG_PROMPT
           /\ last.exc # "none"
                  => /\ last.exc = "CommandError"
                     /\ LastTransport.in_config_mode = last.preConfig

\* "configure terminal" was written from enable mode and the config prompt did not come.
C19_Witness ==
    /\ SerialCommandSent
    /\ last.cmd = "configure terminal"
    /\ last.preEnable
    /\ ~last.preConfig
    /\ last.writes = <<"configure terminal">>
    /\ last.exc = "CommandError"
    /\ ~LastTransport.in_config_mode

SerialDisconnected == last.op = "disconnect" /\ LastTransport.kind = "serial"

\* C20: Serial disconnect() never raises and ends with the handle null and both mode flags
\* false, whatever state it starts in and whatever fails on the way; started in config
\* mode on an open port, it sends "end" first and the terminal-length restore after it.
C20_SerialDisconnectAlwaysResets ==
    SerialDisconnected
        => /\ last.exc = "none"
           /\ LastTransport.handle = "none"
           /\ ~LastTransport.in_enable_mode
           /\ ~LastTransport.in_config_mode
           /\ (last.preConnected /\ last.preConfig)
                  => /\ Len(last.writes) >= 1
                     /\ last.writes[1] = "end"
                     /\ \A i \in 1..Len(last.writes) :
                            last.writes[i] = "terminal length 24" => i > 1

\* A disconnect from config mode: "end", then the restore, then everything reset.
C20_Witness ==
    /\ SerialDisconnected
    /\ last.preConnected
    /\ last.preConfig
    /\ last.writes = <<"end", "terminal length 24">>
    /\ last.exc = "none"
    /\ LastTransport.handle = "none"

GotConnection == last.op \in {"get_connection", "get_connection_no_connect"}

\* get_connection found a connected cached transport: it is the one returned, nothing
\* is constructed and nothing is sent.
ReturnedCached ==
    /\ last.exc = "none"
    /\ last.created = {}
    /\ last.writes = <<>>
    /\ mgr.conn = last.t

\* get_connection raised before the factory produced a transport.
BuiltNothing ==
    /\ last.exc # "none"
    /\ last.created = {}
    /\ mgr.conn = last.t

\* get_connection built one transport and cached it; connect() ran on it exactly when
\* auto_connect was true.
BuiltOne ==
    /\ last.created = {mgr.conn}
    /\ mgr.conn # last.t
    /\ IF last.op = "get_connection"
       THEN last.exc # "none" \/ IsConnected(transports[mgr.conn])
       ELSE /\ last.exc = "none"
            /\ last.writes = <<>>
            /\ transports[mgr.conn] = CreateConnection(mgr.connection_type, mgr.section).tr

\* C21 as stated: a connected cached transport is returned as it is; otherwise one
\* transport is built, cached and connected iff auto_connect, unless the subsection is
\* not a mapping, in which case the call raises and builds nothing.
C21_GetConnectionBuildsOne ==
    GotConnection
        => IF last.preConnected THEN ReturnedCached
           ELSE IF ~mgr.section.isDict THEN BuiltNothing
           ELSE BuiltOne

\* C21 amended: as above, and the call also raises and builds nothing, keeping what was
\* cached, when the factory rejects the subsection.
C21_GetConnectionBuildsOneIfAccepted ==
    GotConnection
        => IF last.preConnected THEN ReturnedCached
           ELSE IF ~mgr.section.isDict THEN BuiltNothing /\ last.exc = "ValueError"
           ELSE IF CreateConnection(mgr.connection_type, mgr.section).exc # "none"
           THEN BuiltNothing
           ELSE BuiltOne

\* A transport was built without being connected.
C21_Witness ==
    /\ last.op = "get_connection_no_connect"
    /\ ~last.preConnected
    /\ last.created = {mgr.conn}
    /\ ~IsConnected(transports[mgr.conn])

ManagerCommandSent == last.op = "send_command" /\ mgr # NoManager

Forwarded == \E i \in 1..Len(last.calls) : last.calls[i].method = "send_command"

\* C22: ConnectionManager.send_command on a manager that is not connected first
\* establishes a connected transport and only then forwards the command; no command is
\* forwarded to a transport that reports not connected, and when establishing the
\* connection fails the command is not sent.
C22_ConnectsBeforeForwarding ==
    ManagerCommandSent
        => /\ \A i \in 1..Len(last.calls) :
                  last.calls[i].method = "send_command"
                      => last.calls[i].connected /\ i = Len(last.calls)
           /\ Wrote(last.cmd) => Forwarded
           /\ ~last.preConnected
                  => \/ /\ Len(last.calls) = 2
                        /\ last.calls[1].method = "connect"
                        /\ last.calls[1].ok
                        /\ last.calls[2].method = "send_command"
                        /\ last.created = {mgr.conn}
                     \/ /\ last.exc # "none"
                        /\ ~Forwarded
                        /\ ~Wrote(last.cmd)

\* A manager that was not connected connected a new transport and the command went out
\* after the connect's own traffic.
C22_Witness ==
    /\ ManagerCommandSent
    /\ ~last.preConnected
    /\ last.created = {mgr.conn}
    /\ Forwarded
    /\ last.exc = "none"
    /\ Len(last.writes) > 1
    /\ last.writes[Len(last.writes)] = last.cmd

RECURSIVE FailingOf(_, _)
FailingOf(tests, failing) ==
    IF tests = <<>> THEN <<>>
    ELSE (IF Head(tests) \in failing THEN <<Head(tests)>> ELSE <<>>)
             \o FailingOf(Tail(tests), failing)

\* C23: a runner whose setup went through calls every listed test (run) or suite
\* (run_all_tests) once, in listed order, whatever raises on the way, records each
\* failure, and returns True exactly when nothing failed.
C23_RunnersRunEverything ==
    /\ \A k \in 1..Len(SuiteNames) :
          (prog.entry = SuiteNames[k] /\ prog.scenario.setupRaises # SuiteNames[k])
              => /\ ~prog.raised
                 /\ prog.invoked = SuiteTestList(SuiteNames[k])
                 /\ prog.recorded = FailingOf(prog.invoked, prog.scenario.failing)
                 /\ prog.value <=> prog.recorded = <<>>
    /\ (prog.entry = "run_all_tests" /\ prog.scenario.setupRaises = "none")
          => /\ ~prog.raised
             /\ prog.invoked = RunnerSuites
             /\ prog.value <=>
                    \A k \in 1..Len(RunnerSuites) :
                        FailingOf(SuiteTestList(RunnerSuites[k]), prog.scenario.failing) = <<>>

(***************************************************************************)
(* setup_test_environment                                                  *)
(***************************************************************************)
SetupDone == last.op = "setup_test_environment"

SentIs(e, command, ok) == e.cmd = command /\ e.ok = ok

\* The attempts that failed at the head of the commands sent: enable failed, or enable
\* succeeded and configure terminal failed.
RECURSIVE FailedAttempts(_, _)
FailedAttempts(s, n) ==
    IF Len(s) >= 1 /\ SentIs(s[1], "enable", FALSE)
    THEN FailedAttempts(Tail(s), n + 1)
    ELSE IF Len(s) >= 2 /\ SentIs(s[1], "enable", TRUE)
                        /\ SentIs(s[2], "configure terminal", FALSE)
    THEN FailedAttempts(SubSeq(s, 3, Len(s)), n + 1)
    ELSE [failed |-> n, rest |-> s]

\* C24: setup_test_environment makes at most 3 attempts to send enable followed by
\* configure terminal; it stops at the first attempt in which both succeed and then sends
\* end exactly once; when all 3 attempts fail it raises the last error and sends no end;
\* nothing but the attempt is sent more than once.
C24_SetupRetriesAtMostThrice ==
    SetupDone =>
        LET p == FailedAttempts(last.sent, 0) IN
        \/ /\ p.failed = 3
           /\ p.rest = <<>>
           /\ last.exc = "CommandError"
        \/ /\ p.failed < 3
           /\ Len(p.rest) = 3
           /\ SentIs(p.rest[1], "enable", TRUE)
           /\ SentIs(p.rest[2], "configure terminal", TRUE)
           /\ p.rest[3].cmd = "end"
           /\ (last.exc = "none") = p.rest[3].ok

\* All three attempts failed, and the error of the third left the helper.
C24_Witness ==
    /\ SetupDone
    /\ FailedAttempts(last.sent, 0).failed = 3
    /\ last.exc = "CommandError"
    /\ \E i \in 1..Len(last.sent) : SentIs(last.sent[i], "configure terminal", FALSE)

(***************************************************************************)
(* SwitchAPI operations                                                    *)
(***************************************************************************)
ApiOperations ==
    {"create_vlan", "delete_vlan", "configure_interface", "assign_port_to_vlan",
     "configure_stp_mode"}

ApiReturned == last.op \in ApiOperations

SomeSendFailed == \E i \in 1..Len(last.sent) : ~last.sent[i].ok

ApiCalledUnconnected == ApiReturned /\ ~last.preConnected /\ last.ret = "False"

(***************************************************************************)
(* CommandManager.verify_response                                          *)
(***************************************************************************)
Verified == ccall.op = "verify_response"

HasExpectedResponse ==
    /\ HasCommand(commands, ccall.category, ccall.name)
    /\ "expected_response" \in DOMAIN commands[ccall.category][ccall.name]

\* The expected_response template of the call's entry formatted with the call's
\* parameters.
FormattedExpected ==
    StrFormat(commands[ccall.category][ccall.name]["expected_response"], ccall.kwargs)

\* C26: on an entry that has an expected_response template, verify_response returns True
\* if and only if the template formatted with the given parameters is a substring of the
\* response.
C26_VerifyIffSubstring ==
    (Verified /\ HasExpectedResponse) =>
        /\ cresult.exc = "none"
        /\ (cresult.value = <<"True">>) <=>
              /\ FormattedExpected.exc = "none"
              /\ IsSubstring(FormattedExpected.value, ccall.response)

SerialIds == { t \in DOMAIN transports : transports[t].kind = "serial" }

\* C27: in every reachable state of a SerialConnection, whatever connect, send_command
\* and disconnect calls returned or raised before, in_config_mode implies in_enable_mode,
\* and a null port handle implies that both mode flags are false.
C27_SerialModeFlagsConsistent ==
    \A t \in SerialIds :
        /\ transports[t].in_config_mode => transports[t].in_enable_mode
        /\ transports[t].handle = "none"
              => ~transports[t].in_enable_mode /\ ~transports[t].in_config_mode

\* A command raised while the connection was in config mode; both flags are still set.
C27_Witness ==
    /\ last.op = "send_command"
    /\ last.t \in SerialIds
    /\ last.exc # "none"
    /\ last.preConfig
    /\ LastTransport.in_config_mode
    /\ LastTransport.in_enable_mode
    /\ LastTransport.handle = "open"

ConnectRaised == last.op = "connect" /\ last.exc # "none"

\* C28: when connect() on a Serial or Telnet transport raises, is_connected() is false
\* afterwards.
C28_FailedConnectNotConnected ==
    (ConnectRaised /\ LastTransport.kind \in {"serial", "telnet"})
        => ~IsConnected(LastTransport)

DeviceInConfig == device \in DeviceConfigModes

\* C29: between commands, a SerialConnection's in_config_mode is true exactly when the
\* switch's CLI is in configuration mode (global or a sub-mode), after any sequence of
\* configure terminal, sub-mode entry, exit, end and show commands, returned or raised.
C29_ConfigFlagTracksDevice ==
    (transports[1].kind = "serial" /\ SerialIsConnected(transports[1]))
        => (transports[1].in_config_mode <=> DeviceInConfig)

SubModeEntries == {"vlan 100", "interface Gi1/0/1"}

\* The commands of s from position i on that were sent and are among cmds.
SentAfter(s, i, cmds) == { j \in i..Len(s) : s[j].ok /\ s[j].cmd \in cmds }

\* The configure terminal at position i of s is matched by a leave command after it: an
\* end, or an exit for the configuration mode and for every sub-mode entered.
LeftConfigMode(s, i) ==
    \/ SentAfter(s, i + 1, {"end"}) # {}
    \/ Cardinality(SentAfter(s, i + 1, {"exit"}))
           >= 1 + Cardinality(SentAfter(s, i + 1, SubModeEntries))

\* C30: when a SwitchAPI operation returns, on success or on any failure path, every
\* configure terminal it sent is matched by a leave command it sent afterwards.
C30_OperationsLeaveConfigMode ==
    ApiReturned =>
        \A i \in SentAfter(last.sent, 1, {"configure terminal"}) :
            LeftConfigMode(last.sent, i)

====
